---- MODULE Spec2Model ----
(***************************************************************************)
(* A model of the motec-i2 LD-file codec: LDWriter (src/src/writer.rs),    *)
(* LDReader (src/src/reader.rs) and the record types they share            *)
(* (src/src/structs.rs).  The stream is a sequence of bytes with a cursor; *)
(* address a of the file is element a + 1 of the sequence.                 *)
(***************************************************************************)
EXTENDS Integers, Sequences, FiniteSets, TLC

VARIABLES
    sink,                 \* the bytes of the stream (LDWriter.sink / LDReader.source)
    pos,                  \* the stream's cursor
    phase,                \* which struct borrows the stream: "writer", "closed", "reader"
    channels,             \* LDWriter.channels
    channel_data_blocks,  \* LDWriter.channel_data_blocks
    write_pos,            \* LDWriter.write_pos
    address_table,        \* LDReader.address_table: <<>> is None, <<t>> is Some(t)
    rd,                   \* read_channels in progress: its locals next_ptr and channels
    io_log,               \* the seeks and reads of the reader operation last started
    got,                  \* the ChannelMetadata records the caller holds
    hist,                 \* what the caller handed to the writer, call by call
    ids,                  \* the ChannelId values the caller holds
    ret                   \* the operation last run and what it returned

vars == <<sink, pos, phase, channels, channel_data_blocks, write_pos,
          address_table, rd, io_log, got, hist, ids, ret>>

writerVars == <<channels, channel_data_blocks, write_pos, hist, ids>>
readerVars == <<address_table, rd, io_log, got>>

----------------------------------------------------------------------------
(* Bounds of the model *)

MaxChannels == 2      \* write_channel calls in one run
MaxLoop == 4          \* iterations of the read_channels loop followed in one call

----------------------------------------------------------------------------
(* Program constants *)

LD_HEADER_MARKER == 64
CHANNEL_META_OFFSET == 8
CHANNEL_DATA_OFFSET == 12
EVENT_OFFSET == 36
ENTRY_SIZE == 124
NEXT_ADDR_OFFSET == 4
DATA_ADDR_OFFSET == 8
VENUE_ADDR_OFFSET == 1152
VEHICLE_ADDR_OFFSET == 1098
HEADER_END == 13384           \* 0x3448, the write head after write_header

----------------------------------------------------------------------------
(* Little-endian integers, as byteorder writes and reads them.  The model  *)
(* keeps every unsigned 32-bit value it handles below 2^31.                *)

Zeros(n) == [i \in 1..n |-> 0]

U16LE(v) == <<v % 256, (v \div 256) % 256>>

U32LE(v) == <<v % 256, (v \div 256) % 256, (v \div 65536) % 256, (v \div 16777216) % 256>>

\* two's complement: % and \div round towards minus infinity
I16LE(v) == U16LE(v % 65536)

I32LE(v) == U32LE(v)

FromU16LE(b) == b[1] + 256 * b[2]

FromU32LE(b) == b[1] + 256 * b[2] + 65536 * b[3] + 16777216 * b[4]

FromI16LE(b) == LET u == FromU16LE(b) IN IF u >= 32768 THEN u - 65536 ELSE u

FromI32LE(b) ==
    b[1] + 256 * b[2] + 65536 * b[3] + 16777216 * (IF b[4] >= 128 THEN b[4] - 256 ELSE b[4])

Min(S) == CHOOSE x \in S : \A y \in S : x <= y

Range(s) == {s[i] : i \in DOMAIN s}

----------------------------------------------------------------------------
(* Datatype *)

Datatypes == {"Beacon16", "Beacon32", "I16", "I32", "F16", "F32", "Invalid"}

\* a faulty size: 2 for every variant but Invalid
size_always_2(d) == IF d = "Invalid" THEN 0 ELSE 2

size(d) ==
    CASE d \in {"Beacon16", "I16", "F16"} -> 2
      [] d \in {"Beacon32", "I32", "F32"} -> 4
      [] d = "Invalid" -> 0

type_code(d) ==
    CASE d \in {"Beacon16", "Beacon32"} -> 0
      [] d \in {"I16", "I32"} -> 3
      [] d \in {"F16", "F32"} -> 7
      [] d = "Invalid" -> 999

\* a faulty from_type_and_size: the pairs of width 5 are errors
from_type_and_size_rejects_invalid(t, s) ==
    CASE t = 0 /\ s = 2 -> <<"Beacon16">>
      [] t = 0 /\ s = 4 -> <<"Beacon32">>
      [] t \in {3, 5} /\ s = 2 -> <<"I16">>
      [] t \in {3, 5} /\ s = 4 -> <<"I32">>
      [] t = 7 /\ s = 2 -> <<"F16">>
      [] t = 7 /\ s = 4 -> <<"F32">>
      [] OTHER -> <<>>

\* Ok(d) is <<d>>; Err(UnrecognizedDatatype{_type, size}) is <<>>
from_type_and_size(t, s) ==
    CASE t = 0 /\ s = 2 -> <<"Beacon16">>
      [] t = 0 /\ s = 4 -> <<"Beacon32">>
      [] t = 3 /\ s = 2 -> <<"I16">>
      [] t = 3 /\ s = 4 -> <<"I32">>
      [] t = 5 /\ s = 2 -> <<"I16">>
      [] t = 5 /\ s = 4 -> <<"I32">>
      [] t = 7 /\ s = 2 -> <<"F16">>
      [] t = 7 /\ s = 4 -> <<"F32">>
      [] t \in {17536, 6566, 29813} /\ s = 5 -> <<"Invalid">>
      [] t = 0 /\ s = 5 -> <<"Invalid">>
      [] t = 15 /\ s = 5 -> <<"Invalid">>
      [] OTHER -> <<>>

----------------------------------------------------------------------------
(* The sink: a seekable stream of bytes.  A write past the end fills the   *)
(* gap with zeros, as Cursor<Vec<u8>> and a file do.                       *)

Stream(b, p) == [bytes |-> b, pos |-> p]

Seek(st, p) == Stream(st.bytes, p)

Write(st, buf) ==
    LET b == IF st.pos > Len(st.bytes)
             THEN st.bytes \o Zeros(st.pos - Len(st.bytes))
             ELSE st.bytes
    IN  Stream(SubSeq(b, 1, st.pos) \o buf \o SubSeq(b, st.pos + Len(buf) + 1, Len(b)),
               st.pos + Len(buf))

\* consecutive writes, each of them complete, from the cursor on
RECURSIVE Flatten(_, _)
Flatten(bufs, i) == IF i > Len(bufs) THEN <<>> ELSE bufs[i] \o Flatten(bufs, i + 1)

WriteAll(st, bufs) == Write(st, Flatten(bufs, 1))

\* the bytes at address a .. a + n - 1 (the caller checks they exist)
BytesAt(b, a, n) == SubSeq(b, a + 1, a + n)

----------------------------------------------------------------------------
(* LDWriter *)

\* crate::full_header::FULL_HEADER, the block write_header lays down before
\* the header fields; its bytes are not interpreted by the writer
FULL_HEADER == [i \in 1..HEADER_END |-> 170]

Take(s, n) == SubSeq(s, 1, IF Len(s) < n THEN Len(s) ELSE n)

\* a faulty write_string: no padding
write_string_unpadded(max_len, string) == <<Take(string, max_len), <<>>>>

\* write_string: the two writes it issues, the text cut to max_len and the padding
write_string(max_len, string) ==
    LET bytes == Take(string, max_len)
        zeros == Zeros(max_len - Len(bytes))
    IN  <<bytes, zeros>>

\* the writes of write_header after its second seek to 0, in program order
header_writes(hdr) ==
       << U32LE(LD_HEADER_MARKER),
          U32LE(0),
          U32LE(0),                       \* channel_meta_ptr, filled in by finish
          U32LE(0),                       \* channel_data_ptr, filled in by finish
          Zeros(20),
          Zeros(24),
          U16LE(0), U16LE(16960), U16LE(15),
          U32LE(hdr.device_serial) >>
    \o write_string(8, hdr.device_type)
    \o << U16LE(hdr.device_version),
          U16LE(128),
          U32LE(hdr.num_channels),
          U32LE(65636) >>
    \o write_string(16, hdr.date_string)
    \o write_string(16, <<>>)
    \o write_string(16, hdr.time_string)
    \o write_string(16, <<>>)
    \o write_string(64, hdr.driver)
    \o write_string(64, hdr.vehicleid)
    \o write_string(64, <<>>)
    \o write_string(64, hdr.venue)
    \o write_string(64, <<>>)
    \o << Zeros(1024),
          U32LE(13764642),
          U16LE(0) >>
    \o write_string(64, hdr.session)
    \o write_string(64, hdr.short_comment)
    \o << Zeros(8), <<99>>, Zeros(117) >>

\* write_header: the stream it leaves
write_header(st, hdr) ==
    LET s1 == Write(Seek(st, 0), FULL_HEADER)
    IN  WriteAll(Seek(s1, 0), header_writes(hdr))

\* write_file_channel: its writes, in program order
write_file_channel(fc) ==
       << U32LE(fc.prev_addr),
          U32LE(fc.next_addr),
          U32LE(fc.data_addr),
          U32LE(fc.samples),
          U16LE(4),
          U16LE(type_code(fc.channel.datatype)),
          U16LE(size(fc.channel.datatype)),
          U16LE(fc.channel.sample_rate),
          U16LE(fc.channel.offset),
          U16LE(fc.channel.mul),
          U16LE(fc.channel.scale),
          I16LE(fc.channel.dec_places) >>
    \o write_string(32, fc.channel.name)
    \o write_string(8, fc.channel.short_name)
    \o write_string(12, fc.channel.unit)
    \o << <<201>>, Zeros(39) >>

\* FileChannel::data_size
data_size(fc) == fc.samples * size(fc.channel.datatype)

\* the previous record write_channel links the new one to
prev_channel(chs) == IF chs = <<>> THEN 0 ELSE chs[Len(chs)]

\* a faulty patches_prev: the previous record is never patched
patches_prev_never(prev_addr) == FALSE

\* whether write_channel goes back to patch the previous record
patches_prev(prev_addr) == prev_addr # 0

\* write_channel: the stream it leaves
write_channel(st, chs, wpos, channel, data) ==
    LET channel_addr == wpos
        prev_addr == prev_channel(chs)
        file_channel == [prev_addr |-> prev_addr, next_addr |-> 0, data_addr |-> 0,
                         samples |-> Len(data), channel |-> channel]
        s1 == WriteAll(Seek(st, wpos), write_file_channel(file_channel))
    IN  IF patches_prev(prev_addr)
        THEN Write(Seek(s1, prev_addr + NEXT_ADDR_OFFSET), U32LE(channel_addr))
        ELSE s1

\* a faulty sample_bytes: a 16-bit sample with its bytes in big-endian order
sample_bytes_big_endian(s) ==
    CASE s.tag = "I16" -> <<I16LE(s.v)[2], I16LE(s.v)[1]>>
      [] s.tag = "I32" -> I32LE(s.v)
      [] s.tag = "F32" -> U32LE(s.v)

\* write_samples: one write per sample, of the width of the sample's own variant
sample_bytes(s) ==
    CASE s.tag = "I16" -> I16LE(s.v)
      [] s.tag = "I32" -> I32LE(s.v)
      [] s.tag = "F32" -> U32LE(s.v)          \* an f32 is modelled by its bit pattern

write_samples(samples) == [i \in 1..Len(samples) |-> sample_bytes(samples[i])]

\* a faulty data_addr_field: the next_addr field of the record
data_addr_field_next(channel_addr) == channel_addr + NEXT_ADDR_OFFSET

\* the field of the record at channel_addr that write_channel_data patches
data_addr_field(channel_addr) == channel_addr + DATA_ADDR_OFFSET

\* write_channel_data: the stream it leaves
write_channel_data(st, chs, wpos, id, samples) ==
    LET data_addr == wpos
        s1 == WriteAll(Seek(st, wpos), write_samples(samples))
        channel_addr == chs[id + 1]
    IN  Write(Seek(s1, data_addr_field(channel_addr)), U32LE(data_addr))

\* the write head write_channel_data leaves
next_write_pos(data_addr, cid) == data_addr + cid.data_size

\* finish: the two addresses it picks, <<>> when there is none to pick
finish_meta_addr(chs) == IF chs = <<>> THEN <<>> ELSE <<Min(Range(chs))>>

finish_data_addr(blocks) == IF blocks = <<>> THEN <<>> ELSE <<Min(Range(blocks))>>

\* a faulty finish: each address in the other's field
finish_swapped(st, maddr, daddr) ==
    LET s1 == Write(Seek(st, CHANNEL_DATA_OFFSET), U32LE(maddr))
    IN  Write(Seek(s1, CHANNEL_META_OFFSET), U32LE(daddr))

\* finish: the stream it leaves when both addresses exist
finish(st, maddr, daddr) ==
    LET s1 == Write(Seek(st, CHANNEL_DATA_OFFSET), U32LE(daddr))
    IN  Write(Seek(s1, CHANNEL_META_OFFSET), U32LE(maddr))

----------------------------------------------------------------------------
(* LDReader: the stream is only read.  An operation's trace is the         *)
(* sequence of its seeks <<"seek", a, 0>> and reads <<"read", a, n>>.      *)

\* str::from_utf8: the length of the well-formed character starting at s[i], or 0
Cont(s, i) == i <= Len(s) /\ s[i] \in 128..191

CharLen(s, i) ==
    LET c == s[i] IN
    CASE c < 128 -> 1
      [] c \in 194..223 -> IF Cont(s, i + 1) THEN 2 ELSE 0
      [] c = 224 -> IF i + 1 <= Len(s) /\ s[i + 1] \in 160..191 /\ Cont(s, i + 2) THEN 3 ELSE 0
      [] c \in (225..236) \cup {238, 239} ->
            IF Cont(s, i + 1) /\ Cont(s, i + 2) THEN 3 ELSE 0
      [] c = 237 -> IF i + 1 <= Len(s) /\ s[i + 1] \in 128..159 /\ Cont(s, i + 2) THEN 3 ELSE 0
      [] c = 240 ->
            IF i + 1 <= Len(s) /\ s[i + 1] \in 144..191 /\ Cont(s, i + 2) /\ Cont(s, i + 3)
            THEN 4 ELSE 0
      [] c \in 241..243 ->
            IF Cont(s, i + 1) /\ Cont(s, i + 2) /\ Cont(s, i + 3) THEN 4 ELSE 0
      [] c = 244 ->
            IF i + 1 <= Len(s) /\ s[i + 1] \in 128..143 /\ Cont(s, i + 2) /\ Cont(s, i + 3)
            THEN 4 ELSE 0
      [] OTHER -> 0

RECURSIVE Utf8From(_, _)
Utf8From(s, i) ==
    IF i > Len(s) THEN TRUE
    ELSE LET n == CharLen(s, i) IN IF n = 0 THEN FALSE ELSE Utf8From(s, i + n)

from_utf8_ok(s) == Utf8From(s, 1)

\* read_string: the bytes before the first null byte (all of them if there is none)
str_size(bytes) ==
    IF \E i \in 1..Len(bytes) : bytes[i] = 0
    THEN (CHOOSE i \in 1..Len(bytes) : bytes[i] = 0 /\ \A j \in 1..(i - 1) : bytes[j] # 0) - 1
    ELSE Len(bytes)

trim_nul(bytes) == SubSeq(bytes, 1, str_size(bytes))

\* one typed read of the reader: <<kind, width>>
F_u32 == <<"u32", 4>>
F_u16 == <<"u16", 2>>
F_i16 == <<"i16", 2>>
F_bytes(n) == <<"bytes", n>>
F_string(n) == <<"string", n>>

field_value(kind, bytes) ==
    CASE kind = "u32" -> FromU32LE(bytes)
      [] kind = "u16" -> FromU16LE(bytes)
      [] kind = "i16" -> FromI16LE(bytes)
      [] kind = "i32" -> FromI32LE(bytes)
      [] kind = "bytes" -> bytes
      [] kind = "string" -> trim_nul(bytes)

\* the state of a run of reads: where the cursor is, what was read, the trace,
\* and the error that stopped it ("" while none did)
Run(p, log) == [pos |-> p, vals |-> <<>>, log |-> log, err |-> ""]

\* read_exact of n bytes at the cursor: an I/O error when fewer are left
can_read(b, p, n) == p + n <= Len(b)

\* one typed read whose bytes were there: the text must be UTF-8
take_field(r, kind, n, bytes) ==
    IF kind = "string" /\ ~from_utf8_ok(trim_nul(bytes))
    THEN [r EXCEPT !.log = Append(@, <<"read", r.pos, n>>), !.pos = @ + n,
                   !.err = "NonUtf8String"]
    ELSE [r EXCEPT !.log = Append(@, <<"read", r.pos, n>>), !.pos = @ + n,
                   !.vals = Append(@, field_value(kind, bytes))]

\* one typed read at the cursor
read_field(b, r, kind, n) ==
    IF ~can_read(b, r.pos, n)
    THEN [r EXCEPT !.log = Append(@, <<"read", r.pos, n>>), !.err = "IOError"]
    ELSE take_field(r, kind, n, BytesAt(b, r.pos, n))

\* a run of typed reads from the cursor on, stopping at the first that fails
RECURSIVE read_fields(_, _, _)
read_fields(b, r, fields) ==
    IF fields = <<>> \/ r.err # "" THEN r
    ELSE read_fields(b, read_field(b, r, Head(fields)[1], Head(fields)[2]), Tail(fields))

\* a seek, then a run of typed reads
seek_read(b, log, a, fields) == read_fields(b, Run(a, Append(log, <<"seek", a, 0>>)), fields)

\* a faulty opt_addr: 0 is an address like any other
opt_addr_always(v) == <<v>>

\* Option<FileAddr> of a pointer field: 0 is None
opt_addr(v) == IF v = 0 THEN <<>> ELSE <<v>>

\* the walk of address_table: w is [err, log, vals], the pointers read so far.
\* One pointer read at address a, unless the walk has failed
walk_took(w, r) ==
    [err |-> r.err, log |-> r.log,
     vals |-> IF r.err = "" THEN Append(w.vals, r.vals[1]) ELSE w.vals]

walk_read(b, w, a, field) ==
    IF w.err # "" THEN w ELSE walk_took(w, seek_read(b, w.log, a, <<field>>))

\* the u16 pointer kept at offset in the record the last pointer leads to; no
\* read, and no record (0), when the last pointer is None
walk_opt(b, w, offset) ==
    IF w.err # "" THEN w
    ELSE IF opt_addr(w.vals[Len(w.vals)]) = <<>> THEN [w EXCEPT !.vals = Append(@, 0)]
    ELSE walk_read(b, w, opt_addr(w.vals[Len(w.vals)])[1] + offset, F_u16)

\* the table of a walk that read (or skipped) its five pointers
table_of(w) ==
    IF w.err # "" THEN [err |-> w.err, log |-> w.log, tbl |-> <<>>]
    ELSE [err |-> "", log |-> w.log,
          tbl |-> <<[channel_meta |-> w.vals[1], channel_data |-> w.vals[2],
                     event |-> opt_addr(w.vals[3]),
                     venue |-> IF opt_addr(w.vals[3]) = <<>> THEN <<>>
                               ELSE opt_addr(w.vals[4]),
                     vehicle |-> IF opt_addr(w.vals[3]) = <<>> \/ opt_addr(w.vals[4]) = <<>>
                                 THEN <<>>
                                 ELSE opt_addr(w.vals[5])]>>]

\* address_table when nothing is memoized: the walk, its trace, and the table
\* it resolves (err is "" when it resolves one)
resolve_address_table(b) ==
    table_of(
        walk_opt(b,
            walk_opt(b,
                walk_read(b,
                    walk_read(b,
                        walk_read(b, [err |-> "", log |-> <<>>, vals |-> <<>>],
                                  CHANNEL_META_OFFSET, F_u32),
                        CHANNEL_DATA_OFFSET, F_u32),
                    EVENT_OFFSET, F_u32),
                VENUE_ADDR_OFFSET),
            VEHICLE_ADDR_OFFSET))

\* a faulty address_table: the walk, whatever is memoized
lookup_address_table_resolves_anew(b, memo) == resolve_address_table(b)

\* address_table: the memoized table if there is one, else the walk
lookup_address_table(b, memo) ==
    IF memo # <<>> THEN [err |-> "", log |-> <<>>, tbl |-> memo]
    ELSE resolve_address_table(b)

\* what an operation hands back: Ok(val), Err(val) or a panic
Ok(op, val) == [op |-> op, status |-> "Ok", val |-> val]
Err(op, val) == [op |-> op, status |-> "Err", val |-> val]
Panic(op) == [op |-> op, status |-> "Panic", val |-> <<>>]
None == <<>>
Some(x) == <<x>>

\* read_header: the reads after the marker, in program order
header_fields ==
    << F_u32,                 \*  1 _unknown
       F_u32,                 \*  2 _channel_meta_ptr
       F_u32,                 \*  3 _channel_data_ptr
       F_bytes(20),           \*  4
       F_u32,                 \*  5 _event_ptr
       F_bytes(24),           \*  6
       F_u16, F_u16, F_u16,   \*  7 8 9 _unknown_const_1..3
       F_u32,                 \* 10 device_serial
       F_string(8),           \* 11 device_type
       F_u16,                 \* 12 device_version
       F_u16,                 \* 13 _unknown_const_4
       F_u32,                 \* 14 num_channels
       F_u32,                 \* 15
       F_string(16),          \* 16 date_string
       F_bytes(16),           \* 17
       F_string(16),          \* 18 time_string
       F_bytes(16),           \* 19
       F_string(64),          \* 20 driver
       F_string(64),          \* 21 vehicleid
       F_bytes(64),           \* 22
       F_string(64),          \* 23 venue
       F_bytes(64),           \* 24
       F_bytes(1024),         \* 25
       F_u32,                 \* 26 pro_logging_bytes
       F_bytes(2),            \* 27
       F_string(64),          \* 28 session
       F_string(64),          \* 29 short_comment
       F_bytes(126) >>        \* 30

\* a faulty marker_ok: any marker from 64 up is let through
marker_ok_at_least(ldmarker) == ldmarker >= LD_HEADER_MARKER

\* whether read_header goes on after the marker
marker_ok(ldmarker) == ldmarker = LD_HEADER_MARKER

\* the Header read_header builds from the values read after the marker
header_of(v) ==
    [device_serial |-> v[10], device_type |-> v[11],
     device_version |-> v[12], pro_logging_bytes |-> v[26],
     num_channels |-> v[14], date_string |-> v[16],
     time_string |-> v[18], driver |-> v[20], vehicleid |-> v[21],
     venue |-> v[23], session |-> v[28], short_comment |-> v[29]]

header_result(r) ==
    IF r.err # "" THEN [ret |-> Err("read_header", <<r.err>>), log |-> r.log]
    ELSE [ret |-> Ok("read_header", header_of(r.vals)), log |-> r.log]

\* read_header from the read of the marker (r0) on
header_after_marker(b, r0) ==
    IF r0.err # "" THEN [ret |-> Err("read_header", <<r0.err>>), log |-> r0.log]
    ELSE IF ~marker_ok(r0.vals[1])
    THEN [ret |-> Err("read_header",
                      <<"InvalidHeaderMarker", r0.vals[1], LD_HEADER_MARKER>>),
          log |-> r0.log]
    ELSE header_result(read_fields(b, [r0 EXCEPT !.vals = <<>>], header_fields))

\* read_header: what it returns, and its trace
read_header(b) == header_after_marker(b, seek_read(b, <<>>, 0, <<F_u32>>))

\* read_event, read_venue, read_vehicle: the reads of the record, and the record
event_fields == <<F_string(64), F_string(64), F_string(1024)>>
venue_fields == <<F_string(64), F_bytes(1034)>>
vehicle_fields == <<F_string(64), F_bytes(128), F_u32, F_string(32), F_string(32)>>

record_fields(level) ==
    CASE level = "event" -> event_fields
      [] level = "venue" -> venue_fields
      [] level = "vehicle" -> vehicle_fields

record_of(level, v) ==
    CASE level = "event" -> [name |-> v[1], session |-> v[2], comment |-> v[3]]
      [] level = "venue" -> [name |-> v[1]]
      [] level = "vehicle" -> [id |-> v[1], weight |-> v[3], type |-> v[4], comment |-> v[5]]

level_addr(tbl, level) ==
    CASE level = "event" -> tbl.event
      [] level = "venue" -> tbl.venue
      [] level = "vehicle" -> tbl.vehicle

op_name(level) ==
    CASE level = "event" -> "read_event"
      [] level = "venue" -> "read_venue"
      [] level = "vehicle" -> "read_vehicle"

level_result(level, tbl, r) ==
    IF r.err # "" THEN [ret |-> Err(op_name(level), <<r.err>>), log |-> r.log, memo |-> tbl]
    ELSE [ret |-> Ok(op_name(level), Some(record_of(level, r.vals))),
          log |-> r.log, memo |-> tbl]

\* read_event / read_venue / read_vehicle once address_table has returned t
level_with_table(b, memo, level, t) ==
    IF t.err # "" THEN [ret |-> Err(op_name(level), <<t.err>>), log |-> t.log, memo |-> memo]
    ELSE IF level_addr(t.tbl[1], level) = None
    THEN [ret |-> Ok(op_name(level), None), log |-> t.log, memo |-> t.tbl]
    ELSE level_result(level, t.tbl,
                      seek_read(b, t.log, level_addr(t.tbl[1], level)[1],
                                record_fields(level)))

\* read_event / read_venue / read_vehicle: what it returns, its trace, and the
\* address table the reader holds afterwards
read_level(b, memo, level) ==
    level_with_table(b, memo, level, lookup_address_table(b, memo))

\* read_channel_metadata: the reads up to the datatype, and those after it
meta_fields_1 == <<F_u32, F_u32, F_u32, F_u32, F_u16, F_u16, F_u16>>
meta_fields_2 == <<F_u16, F_u16, F_u16, F_u16, F_i16,
                   F_string(32), F_string(8), F_string(12), F_bytes(40)>>

\* the ChannelMetadata built from the values read before (v1) and after (v2) the
\* datatype
metadata_of(v1, v2) ==
    [prev_addr |-> v1[1], next_addr |-> v1[2], data_addr |-> v1[3],
     data_count |-> v1[4], datatype |-> from_type_and_size(v1[6], v1[7])[1],
     sample_rate |-> v2[1], offset |-> v2[2], mul |-> v2[3],
     scale |-> v2[4], dec_places |-> v2[5],
     name |-> v2[6], short_name |-> v2[7], unit |-> v2[8]]

meta_result(v1, r2) ==
    IF r2.err # "" THEN [err |-> <<r2.err>>, log |-> r2.log, val |-> None]
    ELSE [err |-> <<>>, log |-> r2.log, val |-> Some(metadata_of(v1, r2.vals))]

\* read_channel_metadata from the reads up to the datatype (r1) on
meta_after_datatype(b, r1) ==
    IF r1.err # "" THEN [err |-> <<r1.err>>, log |-> r1.log, val |-> None]
    ELSE IF from_type_and_size(r1.vals[6], r1.vals[7]) = <<>>
    THEN [err |-> <<"UnrecognizedDatatype", r1.vals[6], r1.vals[7]>>,
          log |-> r1.log, val |-> None]
    ELSE meta_result(r1.vals, read_fields(b, [r1 EXCEPT !.vals = <<>>], meta_fields_2))

\* read_channel_metadata(addr): the record or the error, and the trace so far
read_channel_metadata(b, log, addr) ==
    meta_after_datatype(b, seek_read(b, log, addr, meta_fields_1))

\* whether the read_channels loop returns at this pointer
list_done(next_ptr) == next_ptr = 0

\* a faulty sample_field: a 16-bit float read as a 16-bit integer
sample_field_f16_as_i16(datatype) ==
    CASE datatype \in {"Beacon16", "I16", "F16"} -> <<"I16", <<"i16", 2>>>>
      [] datatype \in {"Beacon32", "I32"} -> <<"I32", <<"i32", 4>>>>
      [] datatype = "F32" -> <<"F32", <<"u32", 4>>>>
      [] OTHER -> <<>>

\* a faulty sample_field: a 16-bit beacon read as 32 bits
sample_field_wide_beacon(datatype) ==
    CASE datatype = "I16" -> <<"I16", <<"i16", 2>>>>
      [] datatype \in {"Beacon16", "Beacon32", "I32"} -> <<"I32", <<"i32", 4>>>>
      [] datatype = "F32" -> <<"F32", <<"u32", 4>>>>
      [] OTHER -> <<>>

\* channel_data: the read of one sample of a channel of this datatype
\* (<<>> where channel_data panics instead of reading)
sample_field(datatype) ==
    CASE datatype \in {"Beacon16", "I16"} -> <<"I16", <<"i16", 2>>>>
      [] datatype \in {"Beacon32", "I32"} -> <<"I32", <<"i32", 4>>>>
      [] datatype = "F32" -> <<"F32", <<"u32", 4>>>>
      [] OTHER -> <<>>

\* channel_data: one sample read (r1) added to those read before (r)
take_sample(r, sf, r1) ==
    IF r1.err # "" THEN r1
    ELSE [r1 EXCEPT !.vals = Append(r.vals, [tag |-> sf[1], v |-> r1.vals[1]])]

\* channel_data: the reads of the samples left, one by one
RECURSIVE read_samples(_, _, _, _)
read_samples(b, r, sf, left) ==
    IF left = 0 \/ r.err # "" THEN r
    ELSE read_samples(b,
             take_sample(r, sf, read_fields(b, [r EXCEPT !.vals = <<>>], <<sf[2]>>)),
             sf, left - 1)

samples_result(r) ==
    IF r.err # "" THEN [ret |-> Err("channel_data", <<r.err>>), log |-> r.log]
    ELSE [ret |-> Ok("channel_data", r.vals), log |-> r.log]

\* channel_data(channel): what it returns, and its trace
channel_data(b, channel) ==
    IF channel.data_count = 0
    THEN [ret |-> Ok("channel_data", <<>>), log |-> <<<<"seek", channel.data_addr, 0>>>>]
    ELSE IF sample_field(channel.datatype) = <<>>
    THEN [ret |-> Panic("channel_data"), log |-> <<<<"seek", channel.data_addr, 0>>>>]
    ELSE samples_result(
             read_samples(b, Run(channel.data_addr, <<<<"seek", channel.data_addr, 0>>>>),
                          sample_field(channel.datatype), channel.data_count))

\* a faulty loop_step: it returns on reading a record whose next_addr is 0,
\* before appending it
loop_step_drops_last(b, log, next_ptr, chans) ==
    LET m == read_channel_metadata(b, log, next_ptr)
    IN  IF list_done(next_ptr)
        THEN [status |-> "Ok", val |-> chans, log |-> log, next_ptr |-> next_ptr]
        ELSE IF m.err # <<>>
        THEN [status |-> "Err", val |-> m.err, log |-> m.log, next_ptr |-> next_ptr]
        ELSE IF list_done(m.val[1].next_addr)
        THEN [status |-> "Ok", val |-> chans, log |-> m.log, next_ptr |-> 0]
        ELSE [status |-> "Running", val |-> Append(chans, m.val[1]), log |-> m.log,
              next_ptr |-> m.val[1].next_addr]

\* a faulty loop_took: it returns the records it has when the record read
\* points at itself or at an address the loop went to before
loop_took_stops_at_seen(next_ptr, chans, m) ==
    IF m.err # <<>>
    THEN [status |-> "Err", val |-> m.err, log |-> m.log, next_ptr |-> next_ptr]
    ELSE IF \/ m.val[1].next_addr = next_ptr
            \/ \E i \in 1..Len(chans) : chans[i].next_addr = m.val[1].next_addr
    THEN [status |-> "Ok", val |-> Append(chans, m.val[1]), log |-> m.log, next_ptr |-> 0]
    ELSE [status |-> "Running", val |-> Append(chans, m.val[1]), log |-> m.log,
          next_ptr |-> m.val[1].next_addr]

\* the loop of read_channels after read_channel_metadata has returned m
loop_took(next_ptr, chans, m) ==
    IF m.err # <<>>
    THEN [status |-> "Err", val |-> m.err, log |-> m.log, next_ptr |-> next_ptr]
    ELSE [status |-> "Running", val |-> Append(chans, m.val[1]), log |-> m.log,
          next_ptr |-> m.val[1].next_addr]

\* one iteration of the loop of read_channels, from its locals next_ptr and
\* channels: it returns ("Ok"), fails ("Err") or goes round again ("Running")
loop_step(b, log, next_ptr, chans) ==
    IF list_done(next_ptr)
    THEN [status |-> "Ok", val |-> chans, log |-> log, next_ptr |-> next_ptr]
    ELSE loop_took(next_ptr, chans, read_channel_metadata(b, log, next_ptr))

\* the loop of read_channels run for at most fuel iterations, s being the
\* outcome of the iteration before
RECURSIVE run_loop(_, _, _)
run_loop(b, s, fuel) ==
    IF s.status # "Running" \/ fuel = 0 THEN s
    ELSE run_loop(b, loop_step(b, s.log, s.next_ptr, s.val), fuel - 1)

\* read_channels once address_table has returned t
loop_with_table(b, t, fuel) ==
    IF t.err # ""
    THEN [status |-> "Err", val |-> <<t.err>>, log |-> t.log, next_ptr |-> 0]
    ELSE run_loop(b, loop_step(b, t.log, t.tbl[1].channel_meta, <<>>), fuel)

\* read_channels on a reader whose memoized table is memo, followed for at most
\* fuel + 1 iterations of its loop (status "Running" when it has not returned by
\* then)
read_channels(b, memo, fuel) == loop_with_table(b, lookup_address_table(b, memo), fuel)

----------------------------------------------------------------------------
(* What the caller supplies.  Text is the sequence of its UTF-8 bytes.     *)

Header1 ==
    [device_serial |-> 12007,
     device_type |-> <<65, 68, 76>>,                                  \* "ADL"
     device_version |-> 420,
     num_channels |-> 1,
     date_string |-> <<50, 51, 47, 49, 49, 47, 50, 48, 48, 53>>,      \* "23/11/2005"
     time_string |-> <<48, 57, 58, 53, 51, 58, 48, 48>>,              \* "09:53:00"
     driver |-> <<>>,
     vehicleid |-> <<49, 49, 65>>,                                    \* "11A"
     venue |-> <<67, 97, 108, 100, 101, 114>>,                        \* "Calder"
     session |-> <<50>>,                                              \* "2"
     short_comment |-> <<115, 101, 99, 111, 110, 100>>]               \* "second"

Header2 ==
    [device_serial |-> 2147483647,
     device_type |-> <<65, 66, 67, 68, 69, 70, 71, 72>>,              \* fills its 8 bytes
     device_version |-> 65535,
     num_channels |-> 2,
     date_string |-> <<49>>,
     time_string |-> <<50>>,
     driver |-> <<195, 169>>,                                         \* "e" with an acute accent
     vehicleid |-> <<>>,
     venue |-> <<86>>,
     session |-> <<83>>,
     short_comment |-> <<>>]

Headers == {Header1, Header2}

Letters(n, c) == [i \in 1..n |-> c]

\* the channel of the writer's tests, with two samples
Input1 ==
    [channel |-> [datatype |-> "I16", sample_rate |-> 2, offset |-> 0, mul |-> 1,
                  scale |-> 1, dec_places |-> 1,
                  name |-> <<65, 105, 114, 32, 84, 101, 109, 112>>,   \* "Air Temp"
                  short_name |-> <<65, 105, 114, 32, 84, 101, 109>>,  \* "Air Tem"
                  unit |-> <<67>>],                                   \* "C"
     data |-> <<[tag |-> "I16", v |-> 190], [tag |-> "I16", v |-> -2]>>]

\* text that fills its fields, a negative dec_places, one 32-bit sample
Input2 ==
    [channel |-> [datatype |-> "I32", sample_rate |-> 10, offset |-> 1, mul |-> 2,
                  scale |-> 2, dec_places |-> -2,
                  name |-> Letters(32, 78),
                  short_name |-> Letters(8, 83),
                  unit |-> Letters(12, 85)],
     data |-> <<[tag |-> "I32", v |-> -70000]>>]

\* a name with a null byte inside it, one float sample (19.0)
Input3 ==
    [channel |-> [datatype |-> "F32", sample_rate |-> 20, offset |-> 0, mul |-> 1,
                  scale |-> 1, dec_places |-> 0,
                  name |-> <<65, 0, 66>>,
                  short_name |-> <<65>>,
                  unit |-> <<>>],
     data |-> <<[tag |-> "F32", v |-> 1100480512]>>]

\* a channel of the Invalid datatype, which has no samples
Input4 ==
    [channel |-> [datatype |-> "Invalid", sample_rate |-> 1, offset |-> 0, mul |-> 1,
                  scale |-> 1, dec_places |-> 0,
                  name |-> <<73>>, short_name |-> <<73>>, unit |-> <<>>],
     data |-> <<>>]

Inputs == {Input1, Input2, Input3, Input4}

----------------------------------------------------------------------------
(* The writer's operations *)

NoReader ==
    /\ address_table = None
    /\ rd = None
    /\ io_log = <<>>
    /\ got = <<>>

InitWriter ==
    /\ sink = <<>>
    /\ pos = 0
    /\ phase = "writer"
    /\ channels = <<>>
    /\ channel_data_blocks = <<>>
    /\ write_pos = 0
    /\ hist = [header |-> None, calls |-> <<>>, ops |-> <<>>]
    /\ ids = {}
    /\ ret = Ok("new", <<>>)
    /\ NoReader

WriteHeader(hdr) ==
    /\ phase = "writer"
    /\ LET st == write_header(Stream(sink, pos), hdr)
       IN  /\ sink' = st.bytes
           /\ pos' = st.pos
    /\ write_pos' = HEADER_END
    /\ hist' = [hist EXCEPT !.header = Some(hdr), !.ops = Append(@, "write_header")]
    /\ ret' = Ok("write_header", <<>>)
    /\ UNCHANGED <<phase, channels, channel_data_blocks, ids, readerVars>>

WriteChannel(in) ==
    /\ phase = "writer"
    /\ Len(channels) < MaxChannels
    /\ LET st == write_channel(Stream(sink, pos), channels, write_pos, in.channel, in.data)
           channel_addr == write_pos
           channel_id == [id |-> Len(channels),
                          data_size |-> data_size([samples |-> Len(in.data),
                                                   channel |-> in.channel])]
       IN  /\ sink' = st.bytes
           /\ pos' = st.pos
           /\ channels' = Append(channels, channel_addr)
           /\ write_pos' = channel_addr + ENTRY_SIZE
           /\ ids' = ids \cup {channel_id}
           /\ hist' = [hist EXCEPT !.calls = Append(@, [channel |-> in.channel,
                                                        data |-> in.data,
                                                        addr |-> channel_addr,
                                                        given |-> None]),
                                  !.ops = Append(@, "write_channel")]
           /\ ret' = Ok("write_channel", channel_id)
    /\ UNCHANGED <<phase, channel_data_blocks, readerVars>>

WriteChannelData(cid, samples) ==
    /\ phase = "writer"
    /\ cid \in ids
    /\ LET st == write_channel_data(Stream(sink, pos), channels, write_pos, cid.id, samples)
           data_addr == write_pos
       IN  /\ sink' = st.bytes
           /\ pos' = st.pos
           /\ channel_data_blocks' = Append(channel_data_blocks, data_addr)
           /\ write_pos' = next_write_pos(data_addr, cid)
           /\ hist' = [hist EXCEPT !.calls[cid.id + 1].given =
                                       Some([samples |-> samples, data_addr |-> data_addr]),
                                  !.ops = Append(@, "write_channel_data")]
           /\ ret' = Ok("write_channel_data", cid)
    /\ ids' = ids \ {cid}
    /\ UNCHANGED <<phase, channels, readerVars>>

Finish ==
    /\ phase = "writer"
    /\ phase' = "closed"
    /\ LET maddr == finish_meta_addr(channels)
           daddr == finish_data_addr(channel_data_blocks)
           st == finish(Stream(sink, pos), maddr[1], daddr[1])
       IN  IF maddr # <<>> /\ daddr # <<>>
           THEN /\ sink' = st.bytes
                /\ pos' = st.pos
                /\ ret' = Ok("finish", <<>>)
           ELSE /\ ret' = Panic("finish")
                /\ UNCHANGED <<sink, pos>>
    /\ hist' = [hist EXCEPT !.ops = Append(@, "finish")]
    /\ UNCHANGED <<channels, channel_data_blocks, write_pos, ids, readerVars>>

----------------------------------------------------------------------------
(* The reader's operations.  read_channels is followed iteration by        *)
(* iteration of its loop; the other operations run to their return.        *)

Idle == phase = "reader" /\ rd = None

\* where an operation leaves the cursor: after its last seek or read (at the end
\* of the stream when a read_exact failed)
CursorAfter(b, p, log, io_failed) ==
    IF log = <<>> THEN p
    ELSE LET e == log[Len(log)]
         IN  IF e[1] = "seek" THEN e[2]
             ELSE IF io_failed THEN Len(b)
             ELSE e[2] + e[3]

IoFailed(r) == r.status = "Err" /\ r.val = <<"IOError">>

\* an operation returns r.ret after the seeks and reads of r.log
Return(r) ==
    /\ ret' = r.ret
    /\ io_log' = r.log
    /\ pos' = CursorAfter(sink, pos, r.log, IoFailed(r.ret))

ReadHeader ==
    /\ Idle
    /\ Return(read_header(sink))
    /\ UNCHANGED <<sink, phase, writerVars, address_table, rd, got>>

ReadLevel(level) ==
    /\ Idle
    /\ Return(read_level(sink, address_table, level))
    /\ address_table' = read_level(sink, address_table, level).memo
    /\ UNCHANGED <<sink, phase, writerVars, rd, got>>

\* read_channels once address_table has returned t: into the loop, or out with
\* its error
EnterLoop(t) ==
    /\ io_log' = t.log
    /\ pos' = CursorAfter(sink, pos, t.log, t.err # "")
    /\ IF t.err # ""
       THEN /\ ret' = Err("read_channels", <<t.err>>)
            /\ UNCHANGED <<address_table, rd>>
       ELSE /\ address_table' = t.tbl
            /\ rd' = Some([next_ptr |-> t.tbl[1].channel_meta, channels |-> <<>>])
            /\ ret' = [op |-> "read_channels", status |-> "Running", val |-> <<>>]

\* read_channels up to its loop
ReadChannelsCall ==
    /\ Idle
    /\ EnterLoop(lookup_address_table(sink, address_table))
    /\ UNCHANGED <<sink, phase, writerVars, got>>

\* the loop after an iteration whose outcome is s
LoopTook(s) ==
    /\ io_log' = s.log
    /\ pos' = CursorAfter(sink, pos, s.log, s.status = "Err" /\ s.val = <<"IOError">>)
    /\ IF s.status = "Running"
       THEN /\ Len(rd[1].channels) < MaxLoop
            /\ rd' = Some([next_ptr |-> s.next_ptr, channels |-> s.val])
            /\ UNCHANGED <<ret, got>>
       ELSE /\ rd' = None
            /\ ret' = [op |-> "read_channels", status |-> s.status, val |-> s.val]
            /\ got' = IF s.status = "Ok" THEN s.val ELSE got

\* one iteration of the loop of read_channels
ReadChannelsLoop ==
    /\ phase = "reader"
    /\ rd # None
    /\ LoopTook(loop_step(sink, io_log, rd[1].next_ptr, rd[1].channels))
    /\ UNCHANGED <<sink, phase, writerVars, address_table>>

DataReturned(channel, r) ==
    /\ ret' = [r.ret EXCEPT !.val = [of |-> channel, out |-> r.ret.val]]
    /\ io_log' = r.log
    /\ pos' = CursorAfter(sink, pos, r.log, r.ret.status = "Err")

ChannelData(channel) ==
    /\ Idle
    /\ DataReturned(channel, channel_data(sink, channel))
    /\ UNCHANGED <<sink, phase, writerVars, address_table, rd, got>>

----------------------------------------------------------------------------
(* Specification Spec: a writer used as its examples use it: write_header  *)
(* first or not at all, then write_channel and write_channel_data in any   *)
(* order, each ChannelId given the samples its channel was declared with,  *)
(* then finish.                                                            *)

Init == InitWriter

Fresh == hist.header = None /\ channels = <<>>

Next ==
    \/ \E hdr \in Headers : Fresh /\ WriteHeader(hdr)
    \/ \E in \in Inputs : WriteChannel(in)
    \/ \E cid \in ids : WriteChannelData(cid, hist.calls[cid.id + 1].data)
    \/ Finish

Spec == Init /\ [][Next]_vars

----------------------------------------------------------------------------
(* Files the reader is given, laid out as read_header, address_table and   *)
(* read_channel_metadata read them.                                        *)

Pad(text, n) == text \o Zeros(n - Len(text))

\* a header of 1762 bytes with this marker and these three pointers
HeaderBytes(marker, meta, data, event) ==
       U32LE(marker) \o U32LE(0) \o U32LE(meta) \o U32LE(data) \o Zeros(20)
    \o U32LE(event) \o Zeros(24) \o U16LE(0) \o U16LE(16960) \o U16LE(15)
    \o U32LE(12007) \o Pad(<<65, 68, 76>>, 8) \o U16LE(420) \o U16LE(128)
    \o U32LE(78) \o U32LE(65636)
    \o Pad(<<50, 51>>, 16) \o Zeros(16) \o Pad(<<48, 57>>, 16) \o Zeros(16)
    \o Pad(<<>>, 64) \o Pad(<<49, 49, 65>>, 64) \o Zeros(64)
    \o Pad(<<67, 97>>, 64) \o Zeros(64)
    \o Zeros(1024) \o U32LE(13764642) \o Zeros(2)
    \o Pad(<<50>>, 64) \o Pad(<<115>>, 64) \o Zeros(126)

\* a channel metadata record of 124 bytes
NodeBytes(prev, next, data, count, type, width, name) ==
       U32LE(prev) \o U32LE(next) \o U32LE(data) \o U32LE(count)
    \o U16LE(4) \o U16LE(type) \o U16LE(width)
    \o U16LE(2) \o U16LE(0) \o U16LE(1) \o U16LE(1) \o I16LE(1)
    \o Pad(name, 32) \o Pad(<<83>>, 8) \o Pad(<<67>>, 12) \o <<201>> \o Zeros(39)

\* bytes put at addresses, with zeros between them: parts is a sequence of
\* <<address, bytes>> in address order, at is the length laid so far
RECURSIVE Laid(_, _, _)
Laid(parts, i, at) ==
    IF i > Len(parts) THEN <<>>
    ELSE Zeros(parts[i][1] - at) \o parts[i][2]
            \o Laid(parts, i + 1, parts[i][1] + Len(parts[i][2]))

FileOf(parts) == Laid(parts, 1, 0)

\* an event record whose venue pointer is venue, a venue record whose vehicle
\* pointer is vehicle, a vehicle record
EventBytes(venue) ==
    Pad(<<105, 50>>, 64) \o Pad(<<50>>, 64) \o Pad(<<67, 80>>, 1024) \o U16LE(venue)

VenueBytes(vehicle) == Pad(<<67, 97>>, 64) \o Zeros(1034) \o U16LE(vehicle)

VehicleBytes == Pad(<<49, 49, 65>>, 64) \o Zeros(128) \o U32LE(0)
                    \o Pad(<<67, 97, 114>>, 32) \o Pad(<<>>, 32)

\* samples on file: 16-bit 199, -2, 201; 32-bit -70000, 5; a float and one more
Data16 == I16LE(199) \o I16LE(-2) \o I16LE(201)
Data32 == I32LE(-70000) \o I32LE(5)

\* a wrong marker in front of an otherwise complete file
FileBadMarker ==
    FileOf(<< <<0, HeaderBytes(65, 1762, 2100, 0)>>,
              <<1762, NodeBytes(0, 0, 2100, 3, 3, 2, <<65>>)>>,
              <<2100, Data16>> >>)

\* four bytes that are not the marker, and nothing else
FileOnlyBadMarker == U32LE(0)

\* too short to hold the marker
FileTwoBytes == <<64, 0>>

\* a header whose three pointers are 0
FileNoChannels == FileOf(<< <<0, HeaderBytes(64, 0, 0, 0)>> >>)

\* a chain of three records that is not in address order, with event, venue and
\* vehicle present: 16-bit integers, a beacon of 32 bits, floats
FileChain3 ==
    FileOf(<< <<0, HeaderBytes(64, 2010, 2200, 2400)>>,
              <<1762, NodeBytes(2010, 1886, 2206, 2, 0, 4, <<66>>)>>,
              <<1886, NodeBytes(1762, 0, 2214, 2, 7, 4, <<67>>)>>,
              <<2010, NodeBytes(0, 1762, 2200, 3, 3, 2, <<65>>)>>,
              <<2200, Data16 \o Data32 \o U32LE(1100480512) \o U32LE(0)>>,
              <<2400, EventBytes(3560)>>,
              <<3560, VenueBytes(4664)>>,
              <<4664, VehicleBytes>> >>)

\* a record, then one of the Invalid datatype, then a 16-bit float without samples
\* and a 16-bit float with one; an event without venue
FileOddTypes ==
    FileOf(<< <<0, HeaderBytes(64, 1762, 2300, 2400)>>,
              <<1762, NodeBytes(0, 1886, 2300, 1, 5, 2, <<65>>)>>,
              <<1886, NodeBytes(1762, 2010, 0, 0, 17536, 5, <<68>>)>>,
              <<2010, NodeBytes(1886, 2134, 2300, 0, 7, 2, <<69>>)>>,
              <<2134, NodeBytes(2010, 0, 2300, 1, 7, 2, <<70>>)>>,
              <<2300, Data16>>,
              <<2400, EventBytes(0)>> >>)

\* a record whose next_addr is its own address
FileSelfCycle ==
    FileOf(<< <<0, HeaderBytes(64, 1762, 0, 0)>>,
              <<1762, NodeBytes(0, 1762, 0, 0, 3, 2, <<65>>)>> >>)

\* two records that point at each other
FileTwoCycle ==
    FileOf(<< <<0, HeaderBytes(64, 1762, 0, 0)>>,
              <<1762, NodeBytes(1886, 1886, 0, 0, 3, 2, <<65>>)>>,
              <<1886, NodeBytes(1762, 1762, 0, 0, 3, 4, <<66>>)>> >>)

\* a record, then one whose (type, width) pair is in no table
FileUnknownType ==
    FileOf(<< <<0, HeaderBytes(64, 1762, 0, 0)>>,
              <<1762, NodeBytes(0, 1886, 0, 0, 3, 2, <<65>>)>>,
              <<1886, NodeBytes(1762, 0, 0, 0, 9, 9, <<66>>)>> >>)

\* a record whose name is not UTF-8
FileBadText ==
    FileOf(<< <<0, HeaderBytes(64, 1762, 0, 0)>>,
              <<1762, NodeBytes(0, 0, 0, 0, 3, 2, <<255, 65>>)>> >>)

\* a record, then one that the end of the file cuts after 100 bytes; a venue
\* without vehicle
FileCutRecord ==
    FileOf(<< <<0, HeaderBytes(64, 1762, 0, 2400)>>,
              <<1762, NodeBytes(0, 4700, 0, 0, 3, 2, <<65>>)>>,
              <<2400, EventBytes(3560)>>,
              <<3560, VenueBytes(0)>>,
              <<4700, SubSeq(NodeBytes(1762, 0, 0, 0, 3, 2, <<66>>), 1, 100)>> >>)

\* records that announce more samples than the file holds: three 16-bit samples
\* with five bytes left, two 32-bit samples with none left
FileShortData ==
    FileOf(<< <<0, HeaderBytes(64, 1762, 2100, 0)>>,
              <<1762, NodeBytes(0, 1886, 2100, 3, 3, 2, <<65>>)>>,
              <<1886, NodeBytes(1762, 0, 2105, 2, 3, 4, <<66>>)>>,
              <<2100, <<199, 0, 200, 0, 201>> >> >>)

\* 32-bit integers (type code 5) and a beacon of 16 bits
FileInts ==
    FileOf(<< <<0, HeaderBytes(64, 1886, 2200, 0)>>,
              <<1762, NodeBytes(1886, 0, 2200, 3, 0, 2, <<66>>)>>,
              <<1886, NodeBytes(0, 1762, 2206, 2, 5, 4, <<65>>)>>,
              <<2200, Data16 \o Data32>> >>)

\* an event pointer that leads past the end of the file
FileLostEvent == FileOf(<< <<0, HeaderBytes(64, 0, 0, 5000)>> >>)

Files == << FileBadMarker, FileOnlyBadMarker, FileTwoBytes, FileNoChannels, FileChain3,
            FileOddTypes, FileSelfCycle, FileTwoCycle, FileUnknownType, FileBadText,
            FileCutRecord, FileShortData, FileInts, FileLostEvent >>

----------------------------------------------------------------------------
(* Specification SpecR: a reader on a given file, its operations in any    *)
(* order and number.                                                       *)

InitReader ==
    /\ \E f \in 1..Len(Files) : sink = Files[f]
    /\ pos = 0
    /\ phase = "reader"
    /\ channels = <<>>
    /\ channel_data_blocks = <<>>
    /\ write_pos = 0
    /\ hist = [header |-> None, calls |-> <<>>, ops |-> <<>>]
    /\ ids = {}
    /\ ret = Ok("new", <<>>)
    /\ NoReader

NextR ==
    \/ ReadHeader
    \/ \E level \in {"event", "venue", "vehicle"} : ReadLevel(level)
    \/ ReadChannelsCall
    \/ ReadChannelsLoop
    \/ \E i \in 1..Len(got) : ChannelData(got[i])

SpecR == InitReader /\ [][NextR]_vars

----------------------------------------------------------------------------
(* What the sink holds, read straight off its bytes *)

U32At(b, a) == FromU32LE(BytesAt(b, a, 4))

Finished == phase = "closed" /\ ret.op = "finish" /\ ret.status = "Ok"

LastOps(n) == SubSeq(hist.ops, Len(hist.ops) - n + 1, Len(hist.ops))

NCalls == Len(hist.calls)

\* the bytes the samples of a call take on file
SampleBytes(samples) == Flatten(write_samples(samples), 1)

----------------------------------------------------------------------------
(* C3: after two consecutive successful write_channel calls, in any writer *)
(* state (a fresh writer without header included), the next_addr field of  *)
(* the first of the two records equals the base address of the second.     *)

C3_NextAddrPatched ==
    (Len(hist.ops) >= 2 /\ LastOps(2) = <<"write_channel", "write_channel">>)
        => U32At(sink, hist.calls[NCalls - 1].addr + 4) = hist.calls[NCalls].addr

----------------------------------------------------------------------------
(* C4: after write_channel_data(id, samples), the data_addr field of the   *)
(* record that write_channel made for id holds the address where the first *)
(* sample byte of that call was written, whatever the order of the calls;  *)
(* the data_addr field of every other record is left as it was (0 until    *)
(* its own write_channel_data).                                            *)

C4_DataAddrPatched ==
    phase = "writer" =>
        \A i \in 1..NCalls :
            LET c == hist.calls[i]
                field == U32At(sink, c.addr + 8)
            IN  IF c.given = None
                THEN field = 0
                ELSE /\ field = c.given[1].data_addr
                     /\ field + Len(SampleBytes(c.given[1].samples)) <= Len(sink)
                     /\ BytesAt(sink, field, Len(SampleBytes(c.given[1].samples)))
                            = SampleBytes(c.given[1].samples)

\* two channels whose payloads were written in the reverse order of their records
C4_Witness ==
    /\ phase = "writer"
    /\ NCalls = 2
    /\ hist.calls[1].given # None
    /\ hist.calls[2].given # None
    /\ hist.calls[1].data # <<>>
    /\ hist.calls[2].data # <<>>
    /\ hist.calls[2].given[1].data_addr < hist.calls[1].given[1].data_addr

----------------------------------------------------------------------------
(* C5: finish on a writer on which no channel was written returns an error *)
(* value (NoChannelsWritten) and writes nothing to the header's pointers.  *)

C5_FinishWithoutChannelsIsError ==
    [][(phase = "writer" /\ phase' = "closed" /\ channels = <<>>)
          => /\ ret'.status = "Err"
             /\ sink' = sink]_vars

----------------------------------------------------------------------------
(* C6: with at least one record and one data block recorded, finish writes *)
(* the least recorded metadata address at header offset 8 and the least    *)
(* recorded data address at header offset 12, as little-endian u32, and    *)
(* changes no other byte of the sink.                                      *)

IsLeast(v, addrs) == v \in Range(addrs) /\ \A a \in Range(addrs) : v <= a

C6_FinishPatchesPointers ==
    [][(phase = "writer" /\ phase' = "closed"
            /\ channels # <<>> /\ channel_data_blocks # <<>>)
          => /\ ret'.status = "Ok"
             /\ Len(sink') = Len(sink)
             /\ IsLeast(U32At(sink', 8), channels)
             /\ IsLeast(U32At(sink', 12), channel_data_blocks)
             /\ SubSeq(sink', 1, 8) = SubSeq(sink, 1, 8)
             /\ SubSeq(sink', 17, Len(sink)) = SubSeq(sink, 17, Len(sink))]_vars

\* finish has returned Ok on a file with a header, two records and two data blocks
C6_Witness ==
    /\ Finished
    /\ hist.header # None
    /\ Len(channels) = 2
    /\ Len(channel_data_blocks) = 2
    /\ channel_data_blocks[1] # channels[1]

----------------------------------------------------------------------------
(* Round trips: the reader's operations applied to the bytes on the sink   *)

Fits(channel) ==
    /\ Len(channel.name) <= 32
    /\ Len(channel.short_name) <= 8
    /\ Len(channel.unit) <= 12

NoNul(text) == \A i \in 1..Len(text) : text[i] # 0

NoNulText(channel) ==
    NoNul(channel.name) /\ NoNul(channel.short_name) /\ NoNul(channel.unit)

\* the Sample variant that holds a sample of this datatype ("" if none does)
VariantOf(datatype) ==
    CASE datatype \in {"I16", "Beacon16"} -> "I16"
      [] datatype \in {"I32", "Beacon32"} -> "I32"
      [] datatype = "F32" -> "F32"
      [] OTHER -> ""

SamplesMatch(channel, data) ==
    \A i \in 1..Len(data) : data[i].tag = VariantOf(channel.datatype)

\* write_header first, then each channel given the samples it was declared with,
\* then a finish that returned Ok
WrittenAsDocumented ==
    /\ Finished
    /\ hist.ops[1] = "write_header"
    /\ NCalls >= 1
    /\ \A i \in 1..NCalls :
          /\ hist.calls[i].given # None
          /\ hist.calls[i].given[1].samples = hist.calls[i].data

\* record m, as decoded, carries what was supplied for call c
SameChannel(m, c) ==
    /\ m.datatype = c.channel.datatype
    /\ m.name = c.channel.name
    /\ m.short_name = c.channel.short_name
    /\ m.unit = c.channel.unit
    /\ m.sample_rate = c.channel.sample_rate
    /\ m.offset = c.channel.offset
    /\ m.mul = c.channel.mul
    /\ m.scale = c.channel.scale
    /\ m.dec_places = c.channel.dec_places

\* read_channels on a new reader of the sink returns the records of the calls, in
\* write order, and channel_data on each returns the samples supplied
ChannelsReadBack ==
    LET r == read_channels(sink, None, NCalls)
    IN  /\ r.status = "Ok"
        /\ Len(r.val) = NCalls
        /\ \A i \in 1..NCalls :
              /\ SameChannel(r.val[i], hist.calls[i])
              /\ channel_data(sink, r.val[i]).ret = Ok("channel_data", hist.calls[i].data)

(* C1, as stated: for n >= 1 channels whose datatype is not Invalid, whose *)
(* text fits its fields and whose samples match the datatype, written      *)
(* after write_header and followed by finish, read_channels returns the n  *)
(* records in write order with the supplied datatype, name, short name,    *)
(* unit, sample_rate, offset, mul, scale and dec_places, and channel_data  *)
(* on each returns the supplied samples.                                   *)

C1_RoundTrip_AnyText ==
    (/\ WrittenAsDocumented
     /\ \A i \in 1..NCalls :
           /\ hist.calls[i].channel.datatype # "Invalid"
           /\ Fits(hist.calls[i].channel)
           /\ SamplesMatch(hist.calls[i].channel, hist.calls[i].data))
        => ChannelsReadBack

(* C1, amended: the same, for channels whose name, short name and unit     *)
(* hold no null byte (read_string cuts a text at its first null byte).     *)

C1_RoundTrip ==
    (/\ WrittenAsDocumented
     /\ \A i \in 1..NCalls :
           /\ hist.calls[i].channel.datatype # "Invalid"
           /\ Fits(hist.calls[i].channel)
           /\ NoNulText(hist.calls[i].channel)
           /\ SamplesMatch(hist.calls[i].channel, hist.calls[i].data))
        => ChannelsReadBack

\* two different channels with samples, the second payload written first
C1_Witness ==
    /\ WrittenAsDocumented
    /\ NCalls = 2
    /\ hist.calls[1].channel.datatype = "I16"
    /\ hist.calls[2].channel.datatype = "I32"
    /\ hist.calls[2].given[1].data_addr < hist.calls[1].given[1].data_addr
    /\ ChannelsReadBack

----------------------------------------------------------------------------
(* C2: read_header applied to what write_header(h) wrote returns h, every  *)
(* field of h being written at the offset read_header reads it at.         *)

SameHeader(g, h) ==
    /\ g.device_serial = h.device_serial
    /\ g.device_type = h.device_type
    /\ g.device_version = h.device_version
    /\ g.num_channels = h.num_channels
    /\ g.date_string = h.date_string
    /\ g.time_string = h.time_string
    /\ g.driver = h.driver
    /\ g.vehicleid = h.vehicleid
    /\ g.venue = h.venue
    /\ g.session = h.session
    /\ g.short_comment = h.short_comment

C2_HeaderRoundTrip ==
    (ret.op = "write_header")
        => LET r == read_header(sink).ret
           IN  r.status = "Ok" /\ SameHeader(r.val, hist.header[1])

----------------------------------------------------------------------------
(* What a file holds for the reader, read straight off its bytes *)

U16At(b, a) == FromU16LE(BytesAt(b, a, 2))

Seeked(a) == <<"seek", a, 0>>
Readed(a, n) == <<"read", a, n>>

IsPrefix(p, q) == Len(p) <= Len(q) /\ SubSeq(q, 1, Len(p)) = p

\* the level a pointer leads to: none when it is 0
Level(ptr) == IF ptr = 0 THEN <<>> ELSE <<ptr>>

----------------------------------------------------------------------------
(* C7: read_header on a stream whose first four bytes, as a little-endian  *)
(* u32, are not 64 returns InvalidHeaderMarker with found the value read   *)
(* and expected 64, and reads nothing after the marker.                    *)

C7_BadMarkerStops ==
    (ret.op = "read_header" /\ Len(sink) >= 4 /\ U32At(sink, 0) # 64)
        => /\ ret.status = "Err"
           /\ ret.val = <<"InvalidHeaderMarker", U32At(sink, 0), 64>>
           /\ io_log = <<Seeked(0), Readed(0, 4)>>
           /\ pos = 4

\* marker 65 in front of an otherwise complete file
C7_Witness ==
    /\ ret.op = "read_header"
    /\ sink = FileBadMarker
    /\ ret.val[2] = 65

----------------------------------------------------------------------------
(* The address walk and the chain of records of a file, followed on its    *)
(* bytes.                                                                  *)

\* the event pointer; the venue pointer kept in the event record (0 when there is
\* no event)
EventPtr(b) == U32At(b, 36)
VenuePtr(b) == IF EventPtr(b) = 0 THEN 0 ELSE U16At(b, EventPtr(b) + 1152)
VehiclePtr(b) == IF VenuePtr(b) = 0 THEN 0 ELSE U16At(b, VenuePtr(b) + 1098)

\* every pointer of the walk lies inside the file
WalkResolves(b) ==
    /\ Len(b) >= 40
    /\ EventPtr(b) # 0 => EventPtr(b) + 1154 <= Len(b)
    /\ VenuePtr(b) # 0 => VenuePtr(b) + 1100 <= Len(b)

\* the seeks and reads of a walk that resolves
WalkOf(b) ==
       <<Seeked(8), Readed(8, 4), Seeked(12), Readed(12, 4), Seeked(36), Readed(36, 4)>>
    \o (IF EventPtr(b) = 0 THEN <<>>
        ELSE <<Seeked(EventPtr(b) + 1152), Readed(EventPtr(b) + 1152, 2)>>)
    \o (IF VenuePtr(b) = 0 THEN <<>>
        ELSE <<Seeked(VenuePtr(b) + 1098), Readed(VenuePtr(b) + 1098, 2)>>)

HeadPtr(b) == U32At(b, 8)

\* the addresses met from a by following the u32 at offset 4, up to the first 0
\* (or up to an address whose pointer the file does not hold, or left addresses)
RECURSIVE ChainFrom(_, _, _)
ChainFrom(b, a, left) ==
    IF a = 0 \/ left = 0 \/ a + 8 > Len(b) THEN <<>>
    ELSE <<a>> \o ChainFrom(b, U32At(b, a + 4), left - 1)

Chain(b) == ChainFrom(b, HeadPtr(b), MaxLoop + 1)

\* the chain from the head pointer meets no address twice and reaches 0
ChainEnds(b) ==
    /\ Len(b) >= 12
    /\ LET c == Chain(b)
       IN  /\ \A i, j \in 1..Len(c) : c[i] = c[j] => i = j
           /\ IF c = <<>> THEN HeadPtr(b) = 0 ELSE U32At(b, c[Len(c)] + 4) = 0

\* the reads of the 16 fields of a record at a, one after the other
NodeWidths == <<4, 4, 4, 4, 2, 2, 2, 2, 2, 2, 2, 2, 32, 8, 12, 40>>

RECURSIVE ReadsFrom(_, _, _)
ReadsFrom(a, widths, i) ==
    IF i > Len(widths) THEN <<>>
    ELSE <<Readed(a, widths[i])>> \o ReadsFrom(a + widths[i], widths, i + 1)

NodeReads(a) == <<Seeked(a)>> \o ReadsFrom(a, NodeWidths, 1)

RECURSIVE ChainReads(_, _)
ChainReads(c, i) == IF i > Len(c) THEN <<>> ELSE NodeReads(c[i]) \o ChainReads(c, i + 1)

\* the record at a is whole, of a tabulated datatype, with UTF-8 text
Decodes(b, a) ==
    /\ a + 124 <= Len(b)
    /\ from_type_and_size(U16At(b, a + 18), U16At(b, a + 20)) # <<>>
    /\ from_utf8_ok(trim_nul(BytesAt(b, a + 32, 32)))
    /\ from_utf8_ok(trim_nul(BytesAt(b, a + 64, 8)))
    /\ from_utf8_ok(trim_nul(BytesAt(b, a + 72, 12)))

RecordAt(b, a) == read_channel_metadata(b, <<>>, a).val[1]

\* read_channels has returned the records of the chain, in chain order, after
\* decoding each once and nothing else
ReturnedChain ==
    LET c == Chain(sink)
    IN  /\ ret.status = "Ok"
        /\ Len(ret.val) = Len(c)
        /\ \A i \in 1..Len(c) :
              /\ ret.val[i] = RecordAt(sink, c[i])
              /\ ret.val[i].next_addr = IF i < Len(c) THEN c[i + 1] ELSE 0
        /\ \E walk \in {<<>>, WalkOf(sink)} : io_log = walk \o ChainReads(c, 1)

\* the loop of read_channels holds the records of the first addresses of the
\* chain and is about to go to the next (so it returns once it has them all)
LoopOnChain ==
    LET c == Chain(sink)
        n == Len(rd[1].channels)
    IN  /\ n <= Len(c)
        /\ \A i \in 1..n : rd[1].channels[i] = RecordAt(sink, c[i])
        /\ rd[1].next_ptr = IF n < Len(c) THEN c[n + 1] ELSE 0

Returned(op) == ret.op = op /\ ret.status # "Running" /\ rd = None

(* C8, as stated: on a file whose next_addr chain from the header's        *)
(* channel-meta pointer meets no address twice and reaches 0 after k       *)
(* records, read_channels returns those k records in chain order, having   *)
(* decoded each once and read nothing after the last; when the head        *)
(* pointer is 0 it returns the empty sequence and decodes no record.       *)

C8_ChainWalk_AnyRecords ==
    (ChainEnds(sink) /\ Returned("read_channels")) => ReturnedChain

(* C8, amended: the same, on a file whose address walk resolves and whose  *)
(* chain records are whole, of a tabulated datatype and with UTF-8 text;   *)
(* and every iteration of the loop is one address further on the chain.    *)

C8_ChainWalk ==
    (/\ ChainEnds(sink)
     /\ WalkResolves(sink)
     /\ \A i \in 1..Len(Chain(sink)) : Decodes(sink, Chain(sink)[i]))
        => /\ Returned("read_channels") => ReturnedChain
           /\ (phase = "reader" /\ rd # None) => LoopOnChain

\* three records returned in chain order, which is not their address order, by a
\* call that also walked the addresses
C8_Witness ==
    /\ Returned("read_channels")
    /\ ret.status = "Ok"
    /\ Len(ret.val) = 3
    /\ Chain(sink) = <<2010, 1762, 1886>>
    /\ IsPrefix(WalkOf(sink), io_log)
    /\ io_log[Len(io_log)] = Readed(1886 + 84, 40)

----------------------------------------------------------------------------
(* C9: the address walk reads the event pointer (u32 at 36), then the      *)
(* venue pointer (u16 at event + 1152) only if the event pointer is not 0, *)
(* then the vehicle pointer (u16 at venue + 1098) only if the venue        *)
(* pointer is not 0; a level whose pointer is 0, and every level after it, *)
(* is None: read_event, read_venue, read_vehicle return Ok(None) for it    *)
(* and neither seek to nor read a record.                                  *)

LevelOps == {"read_event", "read_venue", "read_vehicle"}

\* the pointer of the level an operation reads, followed on the bytes
LevelPtr(b, op) ==
    CASE op = "read_event" -> EventPtr(b)
      [] op = "read_venue" -> VenuePtr(b)
      [] op = "read_vehicle" -> VehiclePtr(b)

C9_OptionalChain ==
    [][(Idle /\ ret'.op \in LevelOps /\ address_table' # None)
          => LET walk == IF address_table = None THEN WalkOf(sink) ELSE <<>>
                 ptr == LevelPtr(sink, ret'.op)
             IN  /\ address_table'[1].event = Level(EventPtr(sink))
                 /\ address_table'[1].venue = Level(VenuePtr(sink))
                 /\ address_table'[1].vehicle = Level(VehiclePtr(sink))
                 /\ IsPrefix(walk, io_log')
                 /\ IF ptr = 0
                    THEN ret' = Ok(ret'.op, None) /\ io_log' = walk
                    ELSE io_log'[Len(walk) + 1] = Seeked(ptr)]_vars

\* read_venue has walked to the event, found its venue pointer 0, and returned None
C9_Witness ==
    /\ ret = Ok("read_venue", None)
    /\ EventPtr(sink) = 2400
    /\ VenuePtr(sink) = 0
    /\ io_log = <<Seeked(8), Readed(8, 4), Seeked(12), Readed(12, 4),
                  Seeked(36), Readed(36, 4), Seeked(3552), Readed(3552, 2)>>
    /\ address_table # None
    /\ address_table[1].vehicle = None

----------------------------------------------------------------------------
(* C10: channel_data(channel) seeks to channel.data_addr and returns       *)
(* channel.data_count samples read one after the other from there: 2 bytes *)
(* each as Sample::I16 for I16 and Beacon16, 4 bytes each as Sample::I32   *)
(* for I32 and Beacon32, 4 bytes each as Sample::F32 for F32; when fewer   *)
(* than data_count * size bytes are left at data_addr it returns an I/O    *)
(* error and no samples.                                                   *)

SampleDatatypes == {"I16", "Beacon16", "I32", "Beacon32", "F32"}

\* the sample of a variant that these bytes hold (a float as its bits)
SampleOf(tag, bytes) ==
    [tag |-> tag,
     v |-> CASE tag = "I16" -> FromI16LE(bytes)
             [] tag = "I32" -> FromI32LE(bytes)
             [] tag = "F32" -> FromU32LE(bytes)]

C10_ChannelData ==
    (ret.op = "channel_data" /\ ret.val.of.datatype \in SampleDatatypes)
        => LET ch == ret.val.of
               w == IF ch.datatype \in {"I16", "Beacon16"} THEN 2 ELSE 4
               tag == VariantOf(ch.datatype)
               n == ch.data_count
           IN  /\ io_log[1] = Seeked(ch.data_addr)
               /\ IF ch.data_addr + n * w <= Len(sink)
                  THEN /\ ret.status = "Ok"
                       /\ Len(ret.val.out) = n
                       /\ \A i \in 1..n :
                             ret.val.out[i]
                                = SampleOf(tag, BytesAt(sink, ch.data_addr + (i - 1) * w, w))
                       /\ io_log = <<Seeked(ch.data_addr)>>
                                     \o [i \in 1..n |-> Readed(ch.data_addr + (i - 1) * w, w)]
                  ELSE /\ ret.status = "Err"
                       /\ ret.val.out = <<"IOError">>

\* three 16-bit samples of a beacon channel, the second negative
C10_Witness ==
    /\ ret.op = "channel_data"
    /\ ret.status = "Ok"
    /\ ret.val.of.datatype = "Beacon16"
    /\ ret.val.out = <<[tag |-> "I16", v |-> 199], [tag |-> "I16", v |-> -2],
                       [tag |-> "I16", v |-> 201]>>

----------------------------------------------------------------------------
(* Sample::decode_f64.  An f64 is a fraction n/d in lowest terms (d > 0),  *)
(* an infinity (n its sign) or NaN; the rounding of f64 arithmetic and the *)
(* sign of zero are left out.                                              *)

Abs(x) == IF x < 0 THEN -x ELSE x

RECURSIVE Gcd(_, _)
Gcd(a, b) == IF b = 0 THEN a ELSE Gcd(b, a % b)

Num(n, d) ==
    [d |-> Abs(d) \div Gcd(Abs(n), Abs(d)),
     k |-> "num",
     n |-> (IF d < 0 THEN -n ELSE n) \div Gcd(Abs(n), Abs(d))]
Inf(sign) == [d |-> 0, k |-> "inf", n |-> sign]
NaN == [d |-> 0, k |-> "nan", n |-> 0]

Sign(x) == IF x.n < 0 THEN -1 ELSE 1

\* a / b, b finite
FDiv(a, b) ==
    CASE a.k = "nan" -> NaN
      [] a.k = "inf" -> Inf(Sign(a) * Sign(b))
      [] a.k = "num" /\ b.n = 0 -> IF a.n = 0 THEN NaN ELSE Inf(Sign(a))
      [] OTHER -> Num(a.n * b.d, a.d * b.n)

FMul(a, b) ==
    CASE a.k = "nan" \/ b.k = "nan" -> NaN
      [] a.k = "inf" /\ b.k = "num" /\ b.n = 0 -> NaN
      [] b.k = "inf" /\ a.k = "num" /\ a.n = 0 -> NaN
      [] a.k = "inf" \/ b.k = "inf" -> Inf(Sign(a) * Sign(b))
      [] OTHER -> Num(a.n * b.n, a.d * b.d)

\* a + b, b finite
FAdd(a, b) ==
    CASE a.k = "nan" -> NaN
      [] a.k = "inf" -> a
      [] OTHER -> Num(a.n * b.d + b.n * a.d, a.d * b.d)

RECURSIVE Pow(_, _)
Pow(base, e) == IF e = 0 THEN 1 ELSE base * Pow(base, e - 1)

\* 10.0f64.powi(e): beyond the range of f64 the power is 0 or infinite
powi10(e) ==
    CASE e >= 309 -> Inf(1)
      [] e <= -324 -> Num(0, 1)
      [] e >= 0 -> Num(Pow(10, e), 1)
      [] OTHER -> Num(1, Pow(10, -e))

\* an f32 (sign bit clear, a normal number or 0) from its bits
F32Value(bits) ==
    IF bits = 0 THEN Num(0, 1)
    ELSE IF bits \div 8388608 >= 150
    THEN Num((8388608 + (bits % 8388608)) * Pow(2, bits \div 8388608 - 150), 1)
    ELSE Num(8388608 + (bits % 8388608), Pow(2, 150 - bits \div 8388608))

\* `*v as f64` of the three variants
raw_as_f64(s) == IF s.tag = "F32" THEN F32Value(s.v) ELSE Num(s.v, 1)

\* `-channel.dec_places` on an i16: the negation of -32768 overflows; a build
\* with overflow checks panics (<<>>), one without wraps to -32768
neg_i16(v, build) ==
    IF v # -32768 THEN <<-v>>
    ELSE IF build = "checked" THEN <<>> ELSE <<-32768>>

\* decode_f64 from the exponent on: the four steps in program order
decode_from(value, channel, e) ==
    FAdd(FMul(FMul(FDiv(value, Num(channel.scale, 1)), powi10(e)),
              Num(channel.mul, 1)),
         Num(channel.offset, 1))

\* decode_f64(sample, channel) in a build: <<value>>, or <<>> when it panics
decode_f64(s, channel, build) ==
    IF neg_i16(channel.dec_places, build) = <<>> THEN <<>>
    ELSE <<decode_from(raw_as_f64(s), channel, neg_i16(channel.dec_places, build)[1])>>

----------------------------------------------------------------------------
(* Specification SpecP: the functions that neither read nor write a        *)
(* stream.  The initial state holds a call and its arguments, drawn from   *)
(* bounded sets; the one step of a behaviour makes the call.               *)

\* samples: 199, -2, 0 and -70000 as integers, 19.0 and 0.5 as floats
DecodeSamples ==
    { [tag |-> "I16", v |-> 199], [tag |-> "I16", v |-> -2], [tag |-> "I16", v |-> 0],
      [tag |-> "I32", v |-> -70000],
      [tag |-> "F32", v |-> 1100480512], [tag |-> "F32", v |-> 1056964608] }

\* the fields of a Channel that decode_f64 reads
DecodeChannels ==
    [dec_places : {-32768, -2, 0, 1, 2}, mul : {0, 1, 3}, offset : {0, 5},
     scale : {0, 1, 2, 10}]

Builds == {"checked", "unchecked"}

\* (type, width) pairs: the codes and widths of the table, their neighbours, the
\* greatest u16
LookupCodes == {0, 1, 2, 3, 4, 5, 6, 7, 8, 15, 16, 6566, 17536, 29813, 65535}
LookupWidths == {0, 1, 2, 3, 4, 5, 6, 8, 65535}

Pending(op, args) == [op |-> op, status |-> "Pending", val |-> args]

\* texts as UTF-8 bytes: "", "OK", "test123456", and e-acute followed by "A"
Strings == {<<>>, <<79, 75>>, <<116, 101, 115, 116, 49, 50, 51, 52, 53, 54>>,
            <<195, 169, 65>>}
MaxLens == {0, 1, 2, 8}

\* the sinks write_string finds: empty, or 8 or 12 bytes of 1; the cursor at the
\* start, inside, or at 10 (inside, or past the end)
SinkSizes == {0, 8, 12}
SinkPositions == {0, 2, 10}

InitCalc ==
    /\ phase = "calc"
    /\ channels = <<>>
    /\ channel_data_blocks = <<>>
    /\ write_pos = 0
    /\ hist = [header |-> None, calls |-> <<>>, ops |-> <<>>]
    /\ ids = {}
    /\ NoReader
    /\ \/ \E s \in DecodeSamples, channel \in DecodeChannels, build \in Builds :
             /\ ret = Pending("decode_f64",
                              [build |-> build, channel |-> channel, sample |-> s])
             /\ sink = <<>>
             /\ pos = 0
       \/ \E t \in LookupCodes, s \in LookupWidths :
             /\ ret = Pending("from_type_and_size", [code |-> t, width |-> s])
             /\ sink = <<>>
             /\ pos = 0
       \/ \E string \in Strings, max_len \in MaxLens, n \in SinkSizes, p \in SinkPositions :
             /\ ret = Pending("write_string", [max_len |-> max_len, string |-> string])
             /\ sink = Letters(n, 1)
             /\ pos = p
       \/ \E d \in Datatypes :
             /\ ret = Pending("datatype_pair", [datatype |-> d])
             /\ sink = <<>>
             /\ pos = 0

Called(op) == phase = "calc" /\ ret.op = op /\ ret.status = "Pending"

DecodeF64 ==
    /\ Called("decode_f64")
    /\ ret' = [op |-> "decode_f64",
               status |-> IF decode_f64(ret.val.sample, ret.val.channel, ret.val.build) = <<>>
                          THEN "Panic" ELSE "Ok",
               val |-> [build |-> ret.val.build, channel |-> ret.val.channel,
                        out |-> decode_f64(ret.val.sample, ret.val.channel, ret.val.build),
                        sample |-> ret.val.sample]]
    /\ UNCHANGED <<sink, pos, phase, writerVars, readerVars>>

\* Datatype::from_type_and_size(code, width)
FromTypeAndSize ==
    /\ Called("from_type_and_size")
    /\ ret' = IF from_type_and_size(ret.val.code, ret.val.width) = <<>>
              THEN Err("from_type_and_size",
                       <<"UnrecognizedDatatype", ret.val.code, ret.val.width>>)
              ELSE Ok("from_type_and_size",
                      [code |-> ret.val.code,
                       out |-> from_type_and_size(ret.val.code, ret.val.width)[1],
                       width |-> ret.val.width])
    /\ UNCHANGED <<sink, pos, phase, writerVars, readerVars>>

\* size() of the variant that from_type_and_size returned
Size ==
    /\ phase = "calc"
    /\ ret.op = "from_type_and_size"
    /\ ret.status = "Ok"
    /\ ret' = Ok("size", [code |-> ret.val.code, out |-> ret.val.out,
                          size |-> size(ret.val.out), width |-> ret.val.width])
    /\ UNCHANGED <<sink, pos, phase, writerVars, readerVars>>

\* LDWriter::write_string(max_len, string) on the sink, at its cursor
WriteString ==
    /\ Called("write_string")
    /\ sink' = WriteAll(Stream(sink, pos), write_string(ret.val.max_len, ret.val.string)).bytes
    /\ pos' = WriteAll(Stream(sink, pos), write_string(ret.val.max_len, ret.val.string)).pos
    /\ ret' = Ok("write_string", [before |-> Stream(sink, pos), max_len |-> ret.val.max_len,
                                  string |-> ret.val.string])
    /\ UNCHANGED <<phase, writerVars, readerVars>>

\* the (type, size) pair write_file_channel writes for a channel of a datatype
DatatypePair ==
    /\ Called("datatype_pair")
    /\ ret' = Ok("datatype_pair", [code |-> type_code(ret.val.datatype),
                                   datatype |-> ret.val.datatype,
                                   width |-> size(ret.val.datatype)])
    /\ UNCHANGED <<sink, pos, phase, writerVars, readerVars>>

\* read_channel_metadata's from_type_and_size on the pair that was written
PairRead ==
    /\ phase = "calc"
    /\ ret.op = "datatype_pair"
    /\ ret.status = "Ok"
    /\ ret' = [op |-> "pair_read",
               status |-> IF from_type_and_size(ret.val.code, ret.val.width) = <<>>
                          THEN "Err" ELSE "Ok",
               val |-> [code |-> ret.val.code,
                        datatype |-> ret.val.datatype,
                        out |-> from_type_and_size(ret.val.code, ret.val.width),
                        width |-> ret.val.width]]
    /\ UNCHANGED <<sink, pos, phase, writerVars, readerVars>>

NextP ==
    \/ DecodeF64
    \/ FromTypeAndSize
    \/ Size
    \/ WriteString
    \/ DatatypePair
    \/ PairRead

SpecP == InitCalc /\ [][NextP]_vars

\* a call of op has returned
Did(op) == ret.op = op /\ ret.status # "Pending"

----------------------------------------------------------------------------
(* C11: decode_f64 returns ((raw / scale) * 10^(-dec_places)) * mul        *)
(* + offset, the steps taken in that order, for every sample variant and   *)
(* every scale, dec_places, mul and offset; raw 199 with scale 1,          *)
(* dec_places 1, mul 1, offset 0 gives 19.9.                               *)

\* the formula, the exponent being the negation of dec_places as an integer
Formula(s, channel) ==
    FAdd(FMul(FMul(FDiv(raw_as_f64(s), Num(channel.scale, 1)),
                   powi10(-channel.dec_places)),
              Num(channel.mul, 1)),
         Num(channel.offset, 1))

Params(dec_places, mul, offset, scale) ==
    [dec_places |-> dec_places, mul |-> mul, offset |-> offset, scale |-> scale]

DecodesByFormula ==
    /\ ret.status = "Ok"
    /\ ret.val.out = <<Formula(ret.val.sample, ret.val.channel)>>
    /\ (ret.val.sample = [tag |-> "I16", v |-> 199] /\ ret.val.channel = Params(1, 1, 0, 1))
          => ret.val.out = <<[d |-> 10, k |-> "num", n |-> 199]>>
    /\ (ret.val.sample = [tag |-> "I32", v |-> -70000] /\ ret.val.channel = Params(-2, 3, 5, 10))
          => ret.val.out = <<[d |-> 1, k |-> "num", n |-> -2099995]>>
    /\ (ret.val.sample = [tag |-> "F32", v |-> 1056964608] /\ ret.val.channel = Params(2, 3, 5, 2))
          => ret.val.out = <<[d |-> 400, k |-> "num", n |-> 2003]>>

C11_DecodeFormula == Did("decode_f64") => DecodesByFormula

(* C11 for every dec_places but -32768, the one i16 whose negation is not  *)
(* an i16.                                                                 *)

C11_DecodeFormula_Negatable ==
    (Did("decode_f64") /\ ret.val.channel.dec_places # -32768) => DecodesByFormula

\* 199 decoded to 19.9
C11_Witness ==
    /\ Did("decode_f64")
    /\ ret.val.sample = [tag |-> "I16", v |-> 199]
    /\ ret.val.channel = Params(1, 1, 0, 1)
    /\ ret.val.out = <<Num(199, 10)>>

----------------------------------------------------------------------------
(* C12: from_type_and_size returns Beacon16/Beacon32 for (0,2)/(0,4),      *)
(* I16/I32 for (3,2)/(3,4) and (5,2)/(5,4), F16/F32 for (7,2)/(7,4),       *)
(* Invalid for (17536,5), (6566,5), (29813,5), (0,5), (15,5), and the      *)
(* UnrecognizedDatatype error for every other pair; read_channels returns  *)
(* the records of a chain that holds records of the Invalid datatype, and  *)
(* its UnrecognizedDatatype error carries the pair of the first record of  *)
(* the chain whose pair is not one of these.                               *)

LookupTable ==
    { <<0, 2, "Beacon16">>, <<0, 4, "Beacon32">>,
      <<3, 2, "I16">>, <<3, 4, "I32">>, <<5, 2, "I16">>, <<5, 4, "I32">>,
      <<7, 2, "F16">>, <<7, 4, "F32">>,
      <<17536, 5, "Invalid">>, <<6566, 5, "Invalid">>, <<29813, 5, "Invalid">>,
      <<0, 5, "Invalid">>, <<15, 5, "Invalid">> }

\* the variants the table gives a pair: one or none
Looked(pair) == {e[3] : e \in {x \in LookupTable : x[1] = pair[1] /\ x[2] = pair[2]}}

LookupIsTable ==
    \A t \in LookupCodes, s \in LookupWidths :
       IF Looked(<<t, s>>) = {} THEN from_type_and_size(t, s) = <<>>
       ELSE /\ from_type_and_size(t, s) # <<>>
            /\ Looked(<<t, s>>) = {from_type_and_size(t, s)[1]}

\* the (type, width) pair of the record at a
PairAt(b, a) == <<U16At(b, a + 18), U16At(b, a + 20)>>

\* the record at a is whole, with UTF-8 text
WholeAt(b, a) ==
    /\ a + 124 <= Len(b)
    /\ from_utf8_ok(trim_nul(BytesAt(b, a + 32, 32)))
    /\ from_utf8_ok(trim_nul(BytesAt(b, a + 64, 8)))
    /\ from_utf8_ok(trim_nul(BytesAt(b, a + 72, 12)))

ChainLooked ==
    LET c == Chain(sink)
    IN  /\ (ret.status = "Err" /\ ret.val[1] = "UnrecognizedDatatype")
              => \E i \in 1..Len(c) :
                    /\ PairAt(sink, c[i]) = <<ret.val[2], ret.val[3]>>
                    /\ Looked(PairAt(sink, c[i])) = {}
                    /\ \A j \in 1..(i - 1) : Looked(PairAt(sink, c[j])) # {}
        /\ (/\ ChainEnds(sink)
            /\ WalkResolves(sink)
            /\ \A i \in 1..Len(c) : WholeAt(sink, c[i]))
              => IF \A i \in 1..Len(c) : Looked(PairAt(sink, c[i])) # {}
                 THEN /\ ret.status = "Ok"
                      /\ Len(ret.val) = Len(c)
                      /\ \A i \in 1..Len(c) :
                            {ret.val[i].datatype} = Looked(PairAt(sink, c[i]))
                 ELSE /\ ret.status = "Err"
                      /\ ret.val[1] = "UnrecognizedDatatype"

----------------------------------------------------------------------------
(* C13, as stated: for every (code, width) pair that from_type_and_size    *)
(* maps to a variant, size() of that variant is width.                     *)

C13_SizeIsWidth_AnyVariant == Did("size") => ret.val.size = ret.val.width

(* C13, amended: so it is for every pair whose variant is not Invalid;     *)
(* the pairs of the Invalid variant have width 5, and its size() is 0.     *)

C13_SizeIsWidth ==
    Did("size") =>
       IF ret.val.out = "Invalid"
       THEN ret.val.size = 0 /\ ret.val.width = 5
       ELSE ret.val.size = ret.val.width

\* the pair (5, 4): I32, of size 4
C13_Witness ==
    /\ Did("size")
    /\ ret.val.code = 5
    /\ ret.val.width = 4
    /\ ret.val.out = "I32"
    /\ ret.val.size = 4

----------------------------------------------------------------------------
(* C14: write_string(max_len, s) writes max_len bytes at the cursor: the   *)
(* first min(len(s), max_len) bytes of s, then zero bytes up to max_len.   *)
(* The cursor ends max_len further, and no other byte of the sink changes  *)
(* (a gap between the end of the sink and the cursor is filled with zero   *)
(* bytes).                                                                 *)

\* byte i (from 1) of the sink after n bytes of text, zero padded, were written at
\* cursor p of the bytes b0
ByteAfter(b0, p, n, text, i) ==
    IF i <= p THEN (IF i <= Len(b0) THEN b0[i] ELSE 0)
    ELSE IF i <= p + n THEN (IF i - p <= Len(text) THEN text[i - p] ELSE 0)
    ELSE b0[i]

C14_WriteString ==
    Did("write_string") =>
       /\ ret.status = "Ok"
       /\ pos = ret.val.before.pos + ret.val.max_len
       /\ Len(sink) = IF Len(ret.val.before.bytes) > pos
                      THEN Len(ret.val.before.bytes) ELSE pos
       /\ \A i \in 1..Len(sink) :
             sink[i] = ByteAfter(ret.val.before.bytes, ret.val.before.pos,
                                 ret.val.max_len, ret.val.string, i)

\* "test123456" in a field of 8 at cursor 2 of 12 bytes, and "OK" in a field of
\* 8: the two tests of the writer
C14_Witness ==
    /\ Did("write_string")
    /\ ret.val.max_len = 8
    /\ \/ /\ ret.val.string = <<116, 101, 115, 116, 49, 50, 51, 52, 53, 54>>
          /\ sink = <<1, 1, 116, 101, 115, 116, 49, 50, 51, 52, 1, 1>>
       \/ /\ ret.val.string = <<79, 75>>
          /\ sink = <<79, 75, 0, 0, 0, 0, 0, 0>>

----------------------------------------------------------------------------
(* C15: read_channels, as the first operation on a reader, calls           *)
(* read_header: it reads the marker at offset 0, and on a stream whose     *)
(* marker is not 64 it fails with InvalidHeaderMarker instead of walking   *)
(* the chain.                                                              *)

C15_ReadChannelsReadsHeader ==
    [][(ret.op = "new" /\ ret'.op = "read_channels" /\ Len(sink) >= 4)
          => /\ IsPrefix(<<Seeked(0), Readed(0, 4)>>, io_log')
             /\ U32At(sink, 0) # LD_HEADER_MARKER
                   => /\ ret'.status = "Err"
                      /\ ret'.val = <<"InvalidHeaderMarker", U32At(sink, 0), LD_HEADER_MARKER>>]_vars

----------------------------------------------------------------------------
(* C16: once the reader holds an address table, every call of read_event,  *)
(* read_venue, read_vehicle or read_channels leaves the table as it is,    *)
(* neither seeks to nor reads the pointer fields (offsets 8, 12 and 36,    *)
(* event + 1152, venue + 1098), and goes to the address the table holds.   *)

TableOps == LevelOps \cup {"read_channels"}

\* the addresses of the pointer fields that the walk of address_table reads
PointerFields(tbl) ==
    {CHANNEL_META_OFFSET, CHANNEL_DATA_OFFSET, EVENT_OFFSET}
       \cup (IF tbl.event = None THEN {} ELSE {tbl.event[1] + VENUE_ADDR_OFFSET})
       \cup (IF tbl.venue = None THEN {} ELSE {tbl.venue[1] + VEHICLE_ADDR_OFFSET})

\* a seek to a, or a read of a byte at a
Touches(e, a) ==
    \/ e[1] = "seek" /\ e[2] = a
    \/ e[1] = "read" /\ e[2] <= a /\ a < e[2] + e[3]

MemoAddr(tbl, op) ==
    CASE op = "read_event" -> tbl.event
      [] op = "read_venue" -> tbl.venue
      [] op = "read_vehicle" -> tbl.vehicle

C16_ResolvedOnce ==
    [][(address_table # None /\ ret'.op \in TableOps)
          => /\ address_table' = address_table
             /\ \A i \in (IF rd = None THEN 1 ELSE Len(io_log) + 1)..Len(io_log') :
                   \A a \in PointerFields(address_table[1]) : ~Touches(io_log'[i], a)
             /\ (rd = None /\ ret'.op = "read_channels")
                   => /\ io_log' = <<>>
                      /\ rd' # None
                      /\ rd'[1].next_ptr = address_table[1].channel_meta
             /\ (rd = None /\ ret'.op \in LevelOps)
                   => IF MemoAddr(address_table[1], ret'.op) = None
                      THEN io_log' = <<>> /\ ret'.status = "Ok" /\ ret'.val = None
                      ELSE io_log'[1] = Seeked(MemoAddr(address_table[1], ret'.op)[1])]_vars

\* read_vehicle by a reader that held the table: its trace starts at the vehicle
C16_Witness ==
    /\ ret.op = "read_vehicle"
    /\ ret.status = "Ok"
    /\ ret.val # None
    /\ address_table # None
    /\ address_table[1].vehicle = <<4664>>
    /\ io_log[1] = Seeked(4664)

----------------------------------------------------------------------------
(* The writer on a sink that faults.  An operation is the sequence of its  *)
(* seeks and writes, in program order; `write` is one call of Write::write *)
(* whose count of accepted bytes the writer drops, `write_all` is what     *)
(* byteorder's write_u8 .. write_f32 call.                                 *)

io_seek(a) == <<"seek", a>>
io_write(buf) == <<"write", buf>>
io_write_all(buf) == <<"write_all", buf>>

string_steps(max_len, string) ==
    <<io_write(write_string(max_len, string)[1]), io_write(write_string(max_len, string)[2])>>

header_steps(hdr) ==
       << io_seek(0), io_write(FULL_HEADER), io_seek(0),
          io_write_all(U32LE(LD_HEADER_MARKER)),
          io_write_all(U32LE(0)),
          io_write_all(U32LE(0)),
          io_write_all(U32LE(0)),
          io_write(Zeros(20)),
          io_write(Zeros(24)),
          io_write_all(U16LE(0)), io_write_all(U16LE(16960)), io_write_all(U16LE(15)),
          io_write_all(U32LE(hdr.device_serial)) >>
    \o string_steps(8, hdr.device_type)
    \o << io_write_all(U16LE(hdr.device_version)),
          io_write_all(U16LE(128)),
          io_write_all(U32LE(hdr.num_channels)),
          io_write_all(U32LE(65636)) >>
    \o string_steps(16, hdr.date_string)
    \o string_steps(16, <<>>)
    \o string_steps(16, hdr.time_string)
    \o string_steps(16, <<>>)
    \o string_steps(64, hdr.driver)
    \o string_steps(64, hdr.vehicleid)
    \o string_steps(64, <<>>)
    \o string_steps(64, hdr.venue)
    \o string_steps(64, <<>>)
    \o << io_write(Zeros(1024)),
          io_write_all(U32LE(13764642)),
          io_write_all(U16LE(0)) >>
    \o string_steps(64, hdr.session)
    \o string_steps(64, hdr.short_comment)
    \o << io_write(Zeros(8)), io_write_all(<<99>>), io_write(Zeros(117)) >>

file_channel_steps(fc) ==
       << io_write_all(U32LE(fc.prev_addr)),
          io_write_all(U32LE(fc.next_addr)),
          io_write_all(U32LE(fc.data_addr)),
          io_write_all(U32LE(fc.samples)),
          io_write_all(U16LE(4)),
          io_write_all(U16LE(type_code(fc.channel.datatype))),
          io_write_all(U16LE(size(fc.channel.datatype))),
          io_write_all(U16LE(fc.channel.sample_rate)),
          io_write_all(U16LE(fc.channel.offset)),
          io_write_all(U16LE(fc.channel.mul)),
          io_write_all(U16LE(fc.channel.scale)),
          io_write_all(I16LE(fc.channel.dec_places)) >>
    \o string_steps(32, fc.channel.name)
    \o string_steps(8, fc.channel.short_name)
    \o string_steps(12, fc.channel.unit)
    \o << io_write_all(<<201>>), io_write(Zeros(39)) >>

channel_steps(chs, wpos, channel, data) ==
       << io_seek(wpos) >>
    \o file_channel_steps([prev_addr |-> prev_channel(chs), next_addr |-> 0, data_addr |-> 0,
                           samples |-> Len(data), channel |-> channel])
    \o (IF patches_prev(prev_channel(chs))
        THEN << io_seek(prev_channel(chs) + NEXT_ADDR_OFFSET), io_write_all(U32LE(wpos)) >>
        ELSE << >>)

channel_data_steps(chs, wpos, id, samples) ==
       << io_seek(wpos) >>
    \o [i \in 1..Len(samples) |-> io_write_all(sample_bytes(samples[i]))]
    \o << io_seek(data_addr_field(chs[id + 1])), io_write_all(U32LE(wpos)) >>

\* a fault of the sink at step `at` of an operation: the step returns an error
\* (take = -1), or the sink accepts only the first `take` bytes of the buffer
Takes(step) ==
    {-1} \cup (IF step[1] = "seek" \/ Len(step[2]) = 0 THEN {} ELSE {0, Len(step[2]) - 1})

Faults(steps) ==
    UNION {{[at |-> k, take |-> m] : m \in Takes(steps[k])} : k \in 1..Len(steps)}

\* whether the step hands the fault back as an error: an error of the sink always;
\* write_all also when the sink accepts no byte (WriteZero), while it writes the
\* rest of the buffer again when the sink accepted a part
step_fails(step, take) == take = -1 \/ (step[1] = "write_all" /\ take = 0)

\* the stream after a step during which the sink accepted `take` bytes of a `write`
step_on(st, step, take) ==
    CASE step[1] = "seek" -> Seek(st, step[2])
      [] step[1] = "write" /\ take >= 0 -> Write(st, SubSeq(step[2], 1, take))
      [] OTHER -> Write(st, step[2])

\* the steps from the i-th on: the stream they leave, and Ok, or Err at the step
\* that handed an error back (`?` returns at once)
RECURSIVE run_steps(_, _, _, _), run_from(_, _, _, _)
run_steps(st, steps, i, fault) ==
    IF i > Len(steps) THEN [st |-> st, status |-> "Ok"]
    ELSE IF fault.at = i /\ step_fails(steps[i], fault.take) THEN [st |-> st, status |-> "Err"]
    ELSE run_from(step_on(st, steps[i], IF fault.at = i THEN fault.take ELSE -1),
                  steps, i + 1, fault)

run_from(st, steps, i, fault) ==
    IF st.pos >= 0 THEN run_steps(st, steps, i, fault) ELSE [st |-> st, status |-> "Err"]

\* a faulty committed: the struct is updated whatever the I/O returned
committed_always(status, before, after) == after

\* the struct state after an operation whose updates follow its I/O
committed(status, before, after) == IF status = "Ok" THEN after ELSE before

\* what a faulted operation hands back, with the fault it met
Faulted(op, status, step, fault) ==
    [op |-> op, status |-> status,
     val |-> [at |-> fault.at, kind |-> step[1],
              requested |-> IF step[1] = "seek" THEN 0 ELSE Len(step[2]),
              take |-> fault.take]]

FaultyIO(r) ==
    /\ phase = "writer"
    /\ phase' = "faulted"
    /\ sink' = r.st.bytes
    /\ pos' = r.st.pos

FaultyWriteHeader(hdr, fault) ==
    /\ FaultyIO(run_steps(Stream(sink, pos), header_steps(hdr), 1, fault))
    /\ write_pos' = committed(run_steps(Stream(sink, pos), header_steps(hdr), 1, fault).status,
                              write_pos, HEADER_END)
    /\ ret' = Faulted("write_header",
                      run_steps(Stream(sink, pos), header_steps(hdr), 1, fault).status,
                      header_steps(hdr)[fault.at], fault)
    /\ UNCHANGED <<channels, channel_data_blocks, hist, ids, readerVars>>

ChannelCommitted(status, step, fault) ==
    /\ channels' = committed(status, channels, Append(channels, write_pos))
    /\ write_pos' = committed(status, write_pos, write_pos + ENTRY_SIZE)
    /\ ret' = Faulted("write_channel", status, step, fault)

FaultyWriteChannel(in, fault) ==
    /\ Len(channels) < MaxChannels
    /\ FaultyIO(run_steps(Stream(sink, pos),
                          channel_steps(channels, write_pos, in.channel, in.data), 1, fault))
    /\ ChannelCommitted(run_steps(Stream(sink, pos),
                                  channel_steps(channels, write_pos, in.channel, in.data),
                                  1, fault).status,
                        channel_steps(channels, write_pos, in.channel, in.data)[fault.at],
                        fault)
    /\ UNCHANGED <<channel_data_blocks, hist, ids, readerVars>>

DataCommitted(cid, status, step, fault) ==
    /\ channel_data_blocks' = committed(status, channel_data_blocks,
                                        Append(channel_data_blocks, write_pos))
    /\ write_pos' = committed(status, write_pos, next_write_pos(write_pos, cid))
    /\ ret' = Faulted("write_channel_data", status, step, fault)

FaultyWriteChannelData(cid, samples, fault) ==
    /\ cid \in ids
    /\ FaultyIO(run_steps(Stream(sink, pos),
                          channel_data_steps(channels, write_pos, cid.id, samples), 1, fault))
    /\ DataCommitted(cid,
                     run_steps(Stream(sink, pos),
                               channel_data_steps(channels, write_pos, cid.id, samples),
                               1, fault).status,
                     channel_data_steps(channels, write_pos, cid.id, samples)[fault.at],
                     fault)
    /\ ids' = ids \ {cid}
    /\ UNCHANGED <<channels, hist, readerVars>>

----------------------------------------------------------------------------
(* Specification SpecF: a writer, followed up to and including the first   *)
(* operation during which its sink faults; and a reader on a file that     *)
(* ends before, inside or after the pointers its address table is read     *)
(* from.                                                                   *)

\* the lengths a file is cut to: the reads at 8, at 12, at 36, of the venue
\* pointer (3552) and of the vehicle pointer (4658) fail in turn
CutLengths == {2, 10, 14, 38, 3553, 4659}

CutFiles == {SubSeq(FileChain3, 1, n) : n \in CutLengths} \cup {FileChain3}

FaultInputs == {Input1, Input3}

InitF ==
    \/ InitWriter
    \/ /\ sink \in CutFiles
       /\ pos = 0
       /\ phase = "reader"
       /\ channels = <<>>
       /\ channel_data_blocks = <<>>
       /\ write_pos = 0
       /\ hist = [header |-> None, calls |-> <<>>, ops |-> <<>>]
       /\ ids = {}
       /\ ret = Ok("new", <<>>)
       /\ NoReader

NextF ==
    \/ Fresh /\ WriteHeader(Header1)
    \/ \E in \in FaultInputs : WriteChannel(in)
    \/ \E cid \in ids : WriteChannelData(cid, hist.calls[cid.id + 1].data)
    \/ \E fault \in Faults(header_steps(Header1)) : Fresh /\ FaultyWriteHeader(Header1, fault)
    \/ \E in \in FaultInputs :
          \E fault \in Faults(channel_steps(channels, write_pos, in.channel, in.data)) :
             FaultyWriteChannel(in, fault)
    \/ \E cid \in ids :
          \E fault \in Faults(channel_data_steps(channels, write_pos, cid.id,
                                                 hist.calls[cid.id + 1].data)) :
             FaultyWriteChannelData(cid, hist.calls[cid.id + 1].data, fault)
    \/ \E level \in {"event", "venue", "vehicle"} : ReadLevel(level)
    \/ ReadChannelsCall
    \/ ReadChannelsLoop

SpecF == InitF /\ [][NextF]_vars

----------------------------------------------------------------------------
(* C17: an operation of the writer or of the reader that returns an error  *)
(* leaves channels, channel_data_blocks, write_pos and the memoized        *)
(* address table as they were before the call, at whichever seek, write    *)
(* or read it failed.                                                      *)

----------------------------------------------------------------------------
(* C18: when the sink accepts fewer bytes than a write of write_header or  *)
(* write_channel (write_string included) asked it to take, the operation   *)
(* returns an error; it returns Ok only where the rest of the buffer was   *)
(* written by a further write (write_all).                                 *)

C18_ShortWriteIsError ==
    (/\ phase = "faulted"
     /\ ret.op \in {"write_header", "write_channel"}
     /\ ret.val.take >= 0)
        => ret.status = "Err" \/ ret.val.kind = "write_all"

----------------------------------------------------------------------------
(* C19, as stated: channel_data on a channel of datatype F16 returns no    *)
(* sample sequence, whatever its data_count, 0 included.                   *)

C19_F16FailsFast_AnyCount ==
    (ret.op = "channel_data" /\ ret.val.of.datatype = "F16") => ret.status # "Ok"

(* C19, amended: channel_data on a channel of datatype F16 with a          *)
(* data_count above 0 panics after its seek, before any read; with         *)
(* data_count 0 it returns the empty sequence.                             *)

C19_F16FailsFast ==
    (ret.op = "channel_data" /\ ret.val.of.datatype = "F16")
       => /\ io_log = <<Seeked(ret.val.of.data_addr)>>
          /\ IF ret.val.of.data_count = 0
             THEN ret.status = "Ok" /\ ret.val.out = <<>>
             ELSE ret.status = "Panic"

\* the 16-bit float channel with one sample
C19_Witness ==
    /\ ret.op = "channel_data"
    /\ ret.val.of.datatype = "F16"
    /\ ret.val.of.data_count = 1
    /\ ret.status = "Panic"

----------------------------------------------------------------------------
(* C20: on a file whose next_addr chain from the head pointer comes back   *)
(* to an address it has been at (its address table resolving and its       *)
(* records decoding), read_channels does not return, neither a result nor  *)
(* an error: every iteration of its loop appends the record of the next    *)
(* address of the chain, the records met before included, and leaves a     *)
(* pointer that is not 0, so that the loop goes round again.               *)

\* the chain meets an address twice
Cyclic(b) ==
    /\ Len(b) >= 12
    /\ \E i, j \in 1..Len(Chain(b)) : i < j /\ Chain(b)[i] = Chain(b)[j]

C20_CycleNeverReturns ==
    (/\ phase = "reader"
     /\ Cyclic(sink)
     /\ WalkResolves(sink)
     /\ \A i \in 1..Len(Chain(sink)) : Decodes(sink, Chain(sink)[i]))
        => /\ ~Returned("read_channels")
           /\ rd # None
                 => /\ LoopOnChain
                    /\ rd[1].next_ptr # 0
                    /\ Decodes(sink, rd[1].next_ptr)

\* two records that point at each other, each appended twice, the loop still
\* running
C20_Witness ==
    /\ rd # None
    /\ ret.op = "read_channels"
    /\ ret.status = "Running"
    /\ Len(Chain(sink)) >= 3
    /\ Chain(sink)[1] # Chain(sink)[2]
    /\ Chain(sink)[1] = Chain(sink)[3]
    /\ Len(rd[1].channels) = 4
    /\ rd[1].channels[1] = rd[1].channels[3]
    /\ rd[1].channels[2] = rd[1].channels[4]
    /\ rd[1].channels[1] # rd[1].channels[2]
    /\ rd[1].next_ptr = Chain(sink)[1]

----------------------------------------------------------------------------
(* Specification SpecW: a writer used in every way its signatures allow:   *)
(* write_header at any moment and any number of times, write_channel with  *)
(* or without a header before it, write_channel_data with any samples for  *)
(* a ChannelId (its channel's own, none, more of them, or of another       *)
(* variant), then finish; at most MaxOps operations before finish.         *)

MaxOps == 4

\* a channel of 16-bit samples and a channel of the Invalid datatype
WriterInputs == {Input1, Input4}

\* samples that are not the ones a channel was declared with
Mismatched ==
    {<<>>,
     <<[tag |-> "I32", v |-> 70000]>>,
     <<[tag |-> "I16", v |-> 1], [tag |-> "I16", v |-> 2], [tag |-> "I16", v |-> 3]>>}

\* what write_channel_data may be given for a ChannelId
SamplesFor(cid) == {hist.calls[cid.id + 1].data} \cup Mismatched

MoreOps == Len(hist.ops) < MaxOps

NextW ==
    \/ MoreOps /\ WriteHeader(Header1)
    \/ \E in \in WriterInputs : MoreOps /\ WriteChannel(in)
    \/ \E cid \in ids : \E samples \in SamplesFor(cid) :
           MoreOps /\ WriteChannelData(cid, samples)
    \/ Finish

SpecW == Init /\ [][NextW]_vars

----------------------------------------------------------------------------
(* C21: after write_header, whatever write_channel and write_channel_data  *)
(* calls follow (any samples, any order), the records form a doubly linked *)
(* chain in write order: the prev_addr field of each record but the first  *)
(* holds the address of the record before it, the next_addr field of each  *)
(* record but the last holds the address of the record after it, the       *)
(* prev_addr of the first and the next_addr of the last are 0.             *)

\* write_header was the first operation and was not called again
HeaderFirst ==
    /\ hist.ops # <<>>
    /\ hist.ops[1] = "write_header"
    /\ \A k \in 2..Len(hist.ops) : hist.ops[k] # "write_header"

PrevAddrOf(i) == U32At(sink, hist.calls[i].addr)

NextAddrOf(i) == U32At(sink, hist.calls[i].addr + NEXT_ADDR_OFFSET)

C21_ChainLinked ==
    HeaderFirst =>
        \A i \in 1..NCalls :
            /\ PrevAddrOf(i) = (IF i = 1 THEN 0 ELSE hist.calls[i - 1].addr)
            /\ NextAddrOf(i) = (IF i = NCalls THEN 0 ELSE hist.calls[i + 1].addr)

\* two records after the header, between them a payload longer than declared
C21_Witness ==
    /\ HeaderFirst
    /\ hist.ops = <<"write_header", "write_channel", "write_channel_data", "write_channel">>
    /\ hist.calls[1].given # None
    /\ Len(hist.calls[1].given[1].samples) > Len(hist.calls[1].data)
    /\ NextAddrOf(1) = hist.calls[2].addr
    /\ PrevAddrOf(2) = hist.calls[1].addr

----------------------------------------------------------------------------
(* C22: after a successful write_channel_data(id, samples), write_pos is   *)
(* the address just past the last sample byte written, whatever the length *)
(* and the variants of samples.                                            *)

\* the last operation was a write_channel_data
DataJustWritten ==
    /\ hist.ops # <<>>
    /\ LastOps(1) = <<"write_channel_data">>
    /\ ret.op = "write_channel_data"
    /\ ret.status = "Ok"

\* what that call was given and where it put it
LastGiven == hist.calls[ret.val.id + 1].given[1]

\* the address just past the last byte written by that call
PayloadEnd == LastGiven.data_addr + Len(SampleBytes(LastGiven.samples))

C22_WritePosPastPayload == DataJustWritten => write_pos = PayloadEnd

----------------------------------------------------------------------------
(* C23: for write_header, write_channel and write_channel_data in any      *)
(* order and number, a byte of the header, of a record or of a payload,    *)
(* once written, is not overwritten by a later operation, but for the      *)
(* next_addr and data_addr fields of a record and the two pointer fields   *)
(* of the header that finish patches; write_pos never moves backwards and  *)
(* no record is placed inside the header region.                           *)

\* the n bytes at address a are the same before and after the step
Kept(a, n) == BytesAt(sink', a, n) = BytesAt(sink, a, n)

\* the header but its two pointer fields
HeaderKept ==
    hist.header # None =>
        /\ Kept(0, CHANNEL_META_OFFSET)
        /\ Kept(CHANNEL_DATA_OFFSET + 4, HEADER_END - (CHANNEL_DATA_OFFSET + 4))

\* the record of call i but its next_addr and data_addr fields
RecordKept(i) ==
    /\ Kept(hist.calls[i].addr, NEXT_ADDR_OFFSET)
    /\ Kept(hist.calls[i].addr + DATA_ADDR_OFFSET + 4, ENTRY_SIZE - (DATA_ADDR_OFFSET + 4))

\* the payload of call i, when it has been written
PayloadKept(i) ==
    hist.calls[i].given # None =>
        Kept(hist.calls[i].given[1].data_addr,
             Len(SampleBytes(hist.calls[i].given[1].samples)))

WrittenKept == HeaderKept /\ \A i \in 1..NCalls : RecordKept(i) /\ PayloadKept(i)

WritePosForward == write_pos' >= write_pos

RecordsPastHeader == \A i \in 1..Len(hist'.calls) : hist'.calls[i].addr >= HEADER_END

C23_WrittenOnce == [][WrittenKept /\ WritePosForward /\ RecordsPastHeader]_vars

----------------------------------------------------------------------------
(* C24: whatever operations came before it, finish never writes the value  *)
(* 0, which a reader takes for "absent", into the channel-meta or the      *)
(* channel-data pointer field of the header.                               *)

C24_FinishWritesNoZero ==
    Finished =>
        /\ U32At(sink, CHANNEL_META_OFFSET) # 0
        /\ U32At(sink, CHANNEL_DATA_OFFSET) # 0

----------------------------------------------------------------------------
(* C25: for every Datatype variant d, from_type_and_size(d._type(),        *)
(* d.size()) returns Ok(d): the pair write_channel emits for a channel is  *)
(* accepted by read_channel_metadata and gives back the same variant.      *)

C25_PairReadsBack ==
    Did("pair_read") => ret.status = "Ok" /\ ret.val.out = <<ret.val.datatype>>

====
